---- MODULE Spec2Model ----
(***************************************************************************)
(* Verification model of the LatticA-Salary repository.                    *)
(*                                                                         *)
(* The module holds these state machines, which share no state:            *)
(*   - ConfidentialSalaryPool   (SpecPool)                                 *)
(*   - SalaryPayroll            (SpecPayroll)                              *)
(*   - the FHE executor server  (SpecExecutor)                             *)
(*   - the browser FHE16Client  (SpecClient)                               *)
(*   - the ciphertext codec     (SpecCodec)                                *)
(*   - CERC20                   (SpecCerc)                                 *)
(* Every specification starts from the common Init and takes the steps of  *)
(* one machine only; the variables of the others keep their initial value. *)
(***************************************************************************)
EXTENDS Integers, Sequences, FiniteSets, TLC

VARIABLES
    \* ---- ConfidentialSalaryPool ----
    admin,           \* address public admin
    verifier,        \* ITransferVerifier public verifier (0 = not set)
    merkleRoot,      \* uint256 public merkleRoot
    nullifiers,      \* set of n with nullifiers[n] == true
    commitments,     \* set of c with commitments[c] == true
    totalDeposited,
    totalWithdrawn,
    tokenPool,       \* token.balanceOf(address(this))
    wdByNullifier,   \* history: successful withdraws per nullifier
    wdByCommitment,  \* history: successful withdraws per commitment
    poolLast,        \* history: the last call and its outcome
    \* ---- SalaryPayroll ----
    roles,           \* AccessControl: the holders of each role
    executor,        \* address public executor
    employees,       \* mapping(address => Employee)
    payments,        \* payments[0 .. paymentCounter-1], as a sequence
    payLast,         \* history: the last call and its outcome
    history,         \* the last getPaymentHistory call and what it returned
    \* ---- FHE executor server ----
    exPc,            \* where start() / pollForJobs() stands
    bootLoaded,      \* the global boot parameter table is loaded
    secretKey,       \* let secretKey (FALSE = null)
    isProcessing,    \* let isProcessing
    job,             \* the job of the current poll
    claimed,         \* claimJob has resolved for it
    heap,            \* native ciphertext buffers, addressed by position
    inputPtrs,       \* const inputPtrs
    computeStack,    \* const computeStack (0 = undefined)
    stepIndex,       \* let stepIndex: the plan steps evaluated so far
    result,          \* what executeFHEComputation returned
    nativeCalls,     \* history: native primitives called for this job
    submitted,       \* history: the results submitted for this job
    lastPoll,        \* history: how the last pollForJobs went
    \* ---- browser FHE16Client ----
    clScript,        \* window.createFHE16 is defined
    clModule,        \* this.module (0 = null, else a position in modules)
    initialized,     \* this.initialized
    pkLoaded,        \* this.pkLoaded
    modules,         \* the WASM module instances created so far
    task,            \* the calls in flight: method and position
    pkSetCalls,      \* history: calls of _FHE16_set_pk
    encLog,          \* history: the module state each encryption ran on
    \* ---- ciphertext codec (crypto.js) ----
    cdOrig,          \* the argument of the first codec call
    cdVal,           \* the value the next codec call is applied to
    cdOps,           \* history: the codec functions called so far
    cdBufLen,        \* history: length of the buffer last handed to
                     \* deserializeCiphertext (-1 = missing, -2 = none yet)
    \* ---- CERC20 ----
    tokenExecutor,        \* address public executor
    encryptedTotalSupply, \* bytes32 public encryptedTotalSupply
    encryptedBalances,    \* mapping(address => bytes32)
    encryptedAllowances,  \* mapping(address => mapping(address => bytes32))
    ciphertexts,          \* mapping(bytes32 => Ciphertext)
    cercFirst,            \* history: what each CID's first registration stored
    cercRegistrations,    \* history: successful registrations per CID
    cercLast,             \* history: the last call and its outcome
    \* ---- RateLimiter (rate-limiter.js) ----
    rlConfig,              \* minInterval, maxInterval, initialInterval,
                           \* backoffMultiplier, recoveryRate
    currentInterval,
    consecutiveErrors,
    consecutiveSuccesses,
    totalRequests,
    totalErrors,
    rlLast,                \* history: the last method called
    \* ---- FixedWindowLimiter (rate-limiter.js) ----
    fwClock,               \* Date.now()
    requestCount,
    windowStart,
    fwWindows,             \* history: every value windowStart has had
    fwGrants,              \* history: per time, the calls that returned true
    fwLast,                \* history: the last tryRequest and its result
    \* ---- FHE16 binding (fhe16.js) ----
    fhePc,                 \* where the ENC / ADD / DEC run stands
    fheIn,                 \* the two plaintexts m1, m2
    fheCt,                 \* the ciphertexts ct1, ct2 and the sum
    fheOut,                \* what decInt returned for each of them
    \* ---- decrypt job polling (FHE executor server) ----
    dpRuns,                \* the calls of pollForDecryptJobs, by start order
    dpJobs                 \* per decrypt job: open at the gatehouse, how
                           \* often decrypted, how many results sent

poolVars == <<admin, verifier, merkleRoot, nullifiers, commitments,
              totalDeposited, totalWithdrawn, tokenPool,
              wdByNullifier, wdByCommitment, poolLast>>

payVars == <<roles, executor, employees, payments, payLast>>

histVars == <<history>>

exVars == <<exPc, bootLoaded, secretKey, isProcessing, job, claimed, heap,
            inputPtrs, computeStack, stepIndex, result, nativeCalls,
            submitted, lastPoll>>

clVars == <<clScript, clModule, initialized, pkLoaded, modules, task,
            pkSetCalls, encLog>>

cdVars == <<cdOrig, cdVal, cdOps, cdBufLen>>

cercVars == <<tokenExecutor, encryptedTotalSupply, encryptedBalances,
              encryptedAllowances, ciphertexts, cercFirst, cercRegistrations,
              cercLast>>

rateVars == <<rlConfig, currentInterval, consecutiveErrors,
              consecutiveSuccesses, totalRequests, totalErrors, rlLast>>

fwVars == <<fwClock, requestCount, windowStart, fwWindows, fwGrants, fwLast>>

fheVars == <<fhePc, fheIn, fheCt, fheOut>>

dpVars == <<dpRuns, dpJobs>>

vars == <<poolVars, payVars, histVars, exVars, clVars, cdVars, cercVars,
          rateVars, fwVars, fheVars, dpVars>>

\* What the steps of one machine leave alone
notPool == <<payVars, exVars, clVars, cdVars, cercVars, histVars,
            rateVars, fwVars, fheVars, dpVars>>
notPayroll == <<poolVars, exVars, clVars, cdVars, cercVars, histVars,
            rateVars, fwVars, fheVars, dpVars>>
notExecutor == <<poolVars, payVars, clVars, cdVars, cercVars, histVars,
            rateVars, fwVars, fheVars, dpVars>>
notClient == <<poolVars, payVars, exVars, cdVars, cercVars, histVars,
            rateVars, fwVars, fheVars, dpVars>>
notCodec == <<poolVars, payVars, exVars, clVars, cercVars, histVars,
            rateVars, fwVars, fheVars, dpVars>>
notCerc == <<poolVars, payVars, exVars, clVars, cdVars, histVars,
            rateVars, fwVars, fheVars, dpVars>>
notHistory == <<poolVars, payVars, exVars, clVars, cdVars, cercVars,
               rateVars, fwVars, fheVars, dpVars>>
notRate == <<poolVars, payVars, histVars, exVars, clVars, cdVars, cercVars,
            fwVars, fheVars, dpVars>>
notWindow == <<poolVars, payVars, histVars, exVars, clVars, cdVars, cercVars,
              rateVars, fheVars, dpVars>>
notFhe == <<poolVars, payVars, histVars, exVars, clVars, cdVars, cercVars,
           rateVars, fwVars, dpVars>>
notDecrypt == <<poolVars, payVars, histVars, exVars, clVars, cdVars, cercVars,
               rateVars, fwVars, fheVars>>

(***************************************************************************)
(* Bounds                                                                  *)
(***************************************************************************)
MaxAddr == 2
MaxCommitment == 1
MaxNullifier == 2
MaxRoot == 1
MaxAmount == 1
MaxDeposited == 2
MaxPayments == 2
MaxEmployee == 1
MaxInputs == 3
MaxTasks == 2
MaxTime == 2
MaxBatch == 2
MaxRequests == 5
maxRequests == 2      \* FixedWindowLimiter: options.maxRequests
windowMs == 2         \* FixedWindowLimiter: options.windowMs
MaxClock == 5
MaxRuns == 3
MaxDecryptId == 2
MaxUint == 3          \* type(uint256).max, scaled to the model's range

ZeroAddr == 0
Addr == 0..MaxAddr
Caller == 1..MaxAddr        \* msg.sender is never the zero address
\* Addresses that are only compared with address(0): one of each kind
ZeroOrNot == {ZeroAddr, MaxAddr}
Commitment == 1..MaxCommitment
Nullifier == 1..MaxNullifier
Root == 0..MaxRoot
Amount == 0..MaxAmount
\* Clock readings (block.timestamp, Date.now()); 0 is a timestamp never set
Time == 1..MaxTime

\* The values offered for an argument: all of S, or a single one when the
\* call has already reverted on an earlier requirement and never reads it.
Unread(reverted, S) == IF reverted THEN {CHOOSE x \in S : TRUE} ELSE S

(***************************************************************************)
(* ConfidentialSalaryPool                                                  *)
(***************************************************************************)
\* constructor(_token, _admin): the deployment's admin address
PoolDeployAdmin == 1

\* The last call: its function, its revert reason ("" when it succeeded) and,
\* for withdraw, the commitment and nullifier it carried.  A withdraw that
\* passed or failed the root check also records the root it carried, and a
\* successful one the amount in its public signals and the amount paid out.
NoPoolCall == [op |-> "none", err |-> "", commitment |-> 0, nullifier |-> 0,
               root |-> 0, proven |-> 0, paid |-> 0]

PoolCall(op, err, c, n) ==
    [op |-> op, err |-> err, commitment |-> c, nullifier |-> n,
     root |-> 0, proven |-> 0, paid |-> 0]

PoolInit ==
    /\ admin = PoolDeployAdmin
    /\ verifier = ZeroAddr
    /\ merkleRoot = 0
    /\ nullifiers = {}
    /\ commitments = {}
    /\ totalDeposited = 0
    /\ totalWithdrawn = 0
    /\ tokenPool = 0
    /\ wdByNullifier = [n \in Nullifier |-> 0]
    /\ wdByCommitment = [c \in Commitment |-> 0]
    /\ poolLast = NoPoolCall

\* modifier onlyAdmin
onlyAdmin(caller) == caller = admin

setAdmin ==
    /\ UNCHANGED notPool
    /\ \E caller \in Caller :
       \E newAdmin \in Unread(~onlyAdmin(caller), Addr) :
           LET err == IF ~onlyAdmin(caller) THEN "not admin"
                      ELSE IF newAdmin = ZeroAddr THEN "zero address"
                      ELSE ""
           IN /\ poolLast' = PoolCall("setAdmin", err, 0, 0)
              /\ admin' = IF err = "" THEN newAdmin ELSE admin
              /\ UNCHANGED <<verifier, merkleRoot, nullifiers, commitments,
                             totalDeposited, totalWithdrawn, tokenPool,
                             wdByNullifier, wdByCommitment>>

setVerifier ==
    /\ UNCHANGED notPool
    /\ \E caller \in Caller :
       \E v \in Unread(~onlyAdmin(caller), ZeroOrNot) :
           LET err == IF ~onlyAdmin(caller) THEN "not admin" ELSE ""
           IN /\ poolLast' = PoolCall("setVerifier", err, 0, 0)
              /\ verifier' = IF err = "" THEN v ELSE verifier
              /\ UNCHANGED <<admin, merkleRoot, nullifiers, commitments,
                             totalDeposited, totalWithdrawn, tokenPool,
                             wdByNullifier, wdByCommitment>>

\* deposit(_amount): the admin's own token balance and allowance are taken
\* to be sufficient; the cumulative counter is capped by MaxDeposited.
deposit ==
    /\ UNCHANGED notPool
    /\ \E caller \in Caller :
       \E amt \in Unread(~onlyAdmin(caller), Amount) :
           LET err == IF ~onlyAdmin(caller) THEN "not admin"
                      ELSE IF ~(amt > 0) THEN "zero amount"
                      ELSE ""
           IN /\ totalDeposited + amt <= MaxDeposited
              /\ poolLast' = PoolCall("deposit", err, 0, 0)
              /\ tokenPool' = IF err = "" THEN tokenPool + amt ELSE tokenPool
              /\ totalDeposited' = IF err = "" THEN totalDeposited + amt
                                   ELSE totalDeposited
              /\ UNCHANGED <<admin, verifier, merkleRoot, nullifiers, commitments,
                             totalWithdrawn, wdByNullifier, wdByCommitment>>

\* registerSalary(_commitment, _encryptedDataCID)
registerSalary ==
    /\ UNCHANGED notPool
    /\ \E caller \in Caller :
       \E c \in Unread(~onlyAdmin(caller), Commitment),
          cidEmpty \in Unread(~onlyAdmin(caller), BOOLEAN) :
           LET err == IF ~onlyAdmin(caller) THEN "not admin"
                      ELSE IF c \in commitments THEN "commitment exists"
                      ELSE IF cidEmpty THEN "empty CID"
                      ELSE ""
           IN /\ poolLast' = PoolCall("registerSalary", err, c, 0)
              /\ commitments' = IF err = "" THEN commitments \cup {c}
                                ELSE commitments
              /\ UNCHANGED <<admin, verifier, merkleRoot, nullifiers,
                             totalDeposited, totalWithdrawn, tokenPool,
                             wdByNullifier, wdByCommitment>>

updateMerkleRoot ==
    /\ UNCHANGED notPool
    /\ \E caller \in Caller :
       \E r \in Unread(~onlyAdmin(caller), Root) :
           LET err == IF ~onlyAdmin(caller) THEN "not admin"
                      ELSE IF ~(r # 0) THEN "zero root"
                      ELSE ""
           IN /\ poolLast' = PoolCall("updateMerkleRoot", err, 0, 0)
              /\ merkleRoot' = IF err = "" THEN r ELSE merkleRoot
              /\ UNCHANGED <<admin, verifier, nullifiers, commitments,
                             totalDeposited, totalWithdrawn, tokenPool,
                             wdByNullifier, wdByCommitment>>

\* The root requirement of withdraw.
rootOk_any(r) == TRUE

rootOk(r) == r = merkleRoot

\* The require chain of withdraw, in source order.  proofOk is the answer of
\* the external verifier contract, consulted only when a verifier is set.
withdrawErr_noNullifierCheck(c, n, r, rcpt, amt, proofOk) ==
    IF rcpt = ZeroAddr THEN "zero recipient"
    ELSE IF ~(amt > 0) THEN "zero amount"
    ELSE IF c \notin commitments THEN "unknown commitment"
    ELSE IF ~rootOk(r) THEN "invalid merkle root"
    ELSE IF verifier # ZeroAddr /\ ~proofOk THEN "invalid proof"
    ELSE IF ~(tokenPool >= amt) THEN "insufficient pool balance"
    ELSE ""

withdrawErr(c, n, r, rcpt, amt, proofOk) ==
    IF rcpt = ZeroAddr THEN "zero recipient"
    ELSE IF ~(amt > 0) THEN "zero amount"
    ELSE IF c \notin commitments THEN "unknown commitment"
    ELSE IF n \in nullifiers THEN "already withdrawn"
    ELSE IF ~rootOk(r) THEN "invalid merkle root"
    ELSE IF verifier # ZeroAddr /\ ~proofOk THEN "invalid proof"
    ELSE IF ~(tokenPool >= amt) THEN "insufficient pool balance"
    ELSE ""

\* verifier.verifyProof(_publicSignals, _proof): called only when a verifier
\* is set; the verifier is an external contract and may answer either way.
VerifierAnswer == IF verifier = ZeroAddr THEN {TRUE} ELSE BOOLEAN

\* The amount carried in the public signals: any positive amount, up to one
\* more than the largest _amount offered.
SignalAmount == 1..(MaxAmount + 1)

\* withdraw(_proof, _publicSignals, _recipient, _amount) with
\* _publicSignals = [commitment, nullifier, merkleRoot, recipient, amount],
\* of which the function reads the first three.  msg.sender is not read.
withdraw ==
    /\ UNCHANGED notPool
    /\ \E rcpt \in ZeroOrNot, amt \in Amount :
       LET c0 == CHOOSE c \in Commitment : TRUE
           n0 == CHOOSE n \in Nullifier : TRUE
           r0 == CHOOSE r \in Root : TRUE
           e1 == withdrawErr(c0, n0, r0, rcpt, amt, TRUE)
                    \in {"zero recipient", "zero amount"}
       IN
       \E c \in Unread(e1, Commitment) :
       LET e2 == e1 \/ withdrawErr(c, n0, r0, rcpt, amt, TRUE)
                          = "unknown commitment"
       IN
       \E n \in Unread(e2, Nullifier) :
       LET e3 == e2 \/ withdrawErr(c, n, r0, rcpt, amt, TRUE)
                          = "already withdrawn"
       IN
       \E r \in Unread(e3, Root) :
       LET e4 == e3 \/ withdrawErr(c, n, r, rcpt, amt, TRUE)
                          = "invalid merkle root"
       IN
       \E sigAmt \in Unread(e4, SignalAmount),
          proofOk \in Unread(e4, VerifierAnswer) :
           LET err == withdrawErr(c, n, r, rcpt, amt, proofOk)
               call == PoolCall("withdraw", err, c, n)
           IN /\ poolLast' =
                   IF err = ""
                   THEN [call EXCEPT !.root = r, !.proven = sigAmt,
                                     !.paid = amt]
                   ELSE IF err = "invalid merkle root"
                   THEN [call EXCEPT !.root = r]
                   ELSE call
              /\ IF err = ""
                 THEN /\ nullifiers' = nullifiers \cup {n}
                      /\ tokenPool' = tokenPool - amt
                      /\ totalWithdrawn' = totalWithdrawn + amt
                      /\ wdByNullifier' =
                           [wdByNullifier EXCEPT ![n] = @ + 1]
                      /\ wdByCommitment' =
                           [wdByCommitment EXCEPT ![c] = @ + 1]
                 ELSE UNCHANGED <<nullifiers, tokenPool, totalWithdrawn,
                                  wdByNullifier, wdByCommitment>>
              /\ UNCHANGED <<admin, verifier, merkleRoot, commitments,
                             totalDeposited>>

emergencyWithdraw ==
    /\ UNCHANGED notPool
    /\ \E caller \in Caller :
       \E to \in Unread(~onlyAdmin(caller), ZeroOrNot) :
           LET err == IF ~onlyAdmin(caller) THEN "not admin"
                      ELSE IF to = ZeroAddr THEN "zero address"
                      ELSE IF ~(tokenPool > 0) THEN "no balance"
                      ELSE ""
           IN /\ poolLast' = PoolCall("emergencyWithdraw", err, 0, 0)
              /\ tokenPool' = IF err = "" THEN 0 ELSE tokenPool
              /\ UNCHANGED <<admin, verifier, merkleRoot, nullifiers, commitments,
                             totalDeposited, totalWithdrawn,
                             wdByNullifier, wdByCommitment>>

\* ConfidentialSalary.generateWithdrawProof: the publicSignals of the
\* proof, in the order of the circuit's public inputs
\* [commitment, nullifier, withdrawAmount, poolRoot].
generateWithdrawProof(commitment, nullifier, withdrawAmount, poolRoot) ==
    <<commitment, nullifier, withdrawAmount, poolRoot>>

\* withdraw, "Extract public signals": _publicSignals[0], [1] and [2]
SignalsRead(publicSignals) ==
    [commitment |-> publicSignals[1], nullifier |-> publicSignals[2],
     proofMerkleRoot |-> publicSignals[3]]

\* uint256[5] calldata _publicSignals
SignalsLength == 5

\* pool.withdraw(proof, publicSignals, recipient, amount) with the proof
\* that generateWithdrawProof built for a registered commitment, an unused
\* nullifier and the pool's current root, the pool holding the amount and
\* the verifier, if one is set, accepting.  The caller hands over the four
\* signals as they are, or filled up with a zero to the length the
\* function takes.
frontendWithdraw ==
    /\ UNCHANGED notPool
    /\ \E c \in commitments, n \in Nullifier \ nullifiers,
          amt \in Amount \ {0}, padded \in BOOLEAN :
          LET built == generateWithdrawProof(c, n, amt, merkleRoot)
              signals == IF padded THEN Append(built, 0) ELSE built
              read == SignalsRead(signals)
              err == IF Len(signals) # SignalsLength
                     THEN "publicSignals length"
                     ELSE withdrawErr(read.commitment, read.nullifier,
                                      read.proofMerkleRoot, MaxAddr, amt,
                                      TRUE)
              call == PoolCall("withdraw by frontend", err, c, n)
          IN /\ tokenPool >= amt
             /\ poolLast' = [call EXCEPT !.root = read.proofMerkleRoot,
                                         !.proven = amt, !.paid = amt]
             /\ IF err = ""
                THEN /\ nullifiers' = nullifiers \cup {n}
                     /\ tokenPool' = tokenPool - amt
                     /\ totalWithdrawn' = totalWithdrawn + amt
                     /\ wdByNullifier' =
                          [wdByNullifier EXCEPT ![n] = @ + 1]
                     /\ wdByCommitment' =
                          [wdByCommitment EXCEPT ![c] = @ + 1]
                ELSE UNCHANGED <<nullifiers, tokenPool, totalWithdrawn,
                                 wdByNullifier, wdByCommitment>>
             /\ UNCHANGED <<admin, verifier, merkleRoot, commitments,
                            totalDeposited>>

(***************************************************************************)
(* Claims on ConfidentialSalaryPool                                        *)
(***************************************************************************)
\* C39: the pool's token balance equals totalDeposited - totalWithdrawn.
C39_TotalsMatchFunds ==
    tokenPool = totalDeposited - totalWithdrawn

\* C40: a withdrawal built by generateWithdrawProof for a registered
\* commitment, an unused nullifier and the current pool root is accepted
\* by withdraw, and the value withdraw compared with merkleRoot is the
\* pool root of the proof.
C40_FrontendWithdrawalAccepted ==
    poolLast.op = "withdraw by frontend"
        => (poolLast.err = "" /\ poolLast.root = merkleRoot)

\* C1: for every nullifier n at most one withdraw carrying n succeeds; n is
\* marked used exactly when that withdraw has happened and stays marked, and
\* a successful withdraw is always the first one for its nullifier.
C1_NullifierSpentOnce ==
    /\ \A n \in Nullifier :
          /\ wdByNullifier[n] <= 1
          /\ (n \in nullifiers) <=> (wdByNullifier[n] = 1)
    /\ (poolLast.op = "withdraw" /\ poolLast.err = "")
          => wdByNullifier[poolLast.nullifier] = 1

\* C1 witness: a second withdraw carrying an already used nullifier reverted.
C1_Witness ==
    /\ poolLast.op = "withdraw"
    /\ poolLast.err = "already withdrawn"
    /\ wdByNullifier[poolLast.nullifier] = 1

\* C2: for every registered commitment c at most one successful withdraw has
\* c as its commitment.
C2_CommitmentWithdrawnOnce ==
    \A c \in commitments : wdByCommitment[c] <= 1

\* C19: with a verifier set, the amount a successful withdraw pays out is
\* the amount carried in the public signals that the proof was verified
\* against.
C19_PaysProvenAmount ==
    (poolLast.op = "withdraw" /\ poolLast.err = "" /\ verifier # ZeroAddr)
        => poolLast.paid = poolLast.proven

\* C20: a withdraw succeeds only when the root in its public signals is the
\* stored merkleRoot, and it fails the root check exactly when it carries
\* another root, such as the root in force before an updateMerkleRoot.
C20_RootMustBeCurrent ==
    /\ (poolLast.op = "withdraw" /\ poolLast.err = "")
          => poolLast.root = merkleRoot
    /\ (poolLast.op = "withdraw" /\ poolLast.err = "invalid merkle root")
          => poolLast.root # merkleRoot

\* C20 witness: after updateMerkleRoot replaced the deployment root 0, a
\* withdraw still carrying root 0 reverted.
C20_Witness ==
    /\ poolLast.op = "withdraw"
    /\ poolLast.err = "invalid merkle root"
    /\ poolLast.root = 0
    /\ merkleRoot # 0

(***************************************************************************)
(* SalaryPayroll                                                           *)
(***************************************************************************)
\* constructor: msg.sender gets DEFAULT_ADMIN_ROLE, ADMIN_ROLE and
\* PAYROLL_MANAGER_ROLE; _executor is the deployment's executor.
PayrollDeployer == 1
PayrollDeployExecutor == 2

\* The roles that are granted and checked (COMPLIANCE_ROLE guards no
\* modelled function).
Role == {"DEFAULT_ADMIN_ROLE", "ADMIN_ROLE", "PAYROLL_MANAGER_ROLE"}

hasRole(role, a) == a \in roles[role]

\* modifier onlyRole(ADMIN_ROLE)
hasAdminRole(a) == hasRole("ADMIN_ROLE", a)

\* modifier onlyRole(PAYROLL_MANAGER_ROLE)
hasManagerRole_eitherRole(a) ==
    hasRole("ADMIN_ROLE", a) \/ hasRole("PAYROLL_MANAGER_ROLE", a)

hasManagerRole(a) == hasRole("PAYROLL_MANAGER_ROLE", a)

PaymentId == 0..MaxPayments      \* MaxPayments itself is never a valid id

\* Addresses passed as the employee argument: the zero address and the
\* highest MaxEmployee addresses.
EmployeeArg == {ZeroAddr} \cup {a \in Caller : a > MaxAddr - MaxEmployee}

\* Callers of the role-gated functions: only holding the role matters.
RoleCaller == {PayrollDeployer, MaxAddr}

NoPayCall == [op |-> "none", caller |-> ZeroAddr, err |-> "", id |-> 0,
              arg |-> ZeroAddr, success |-> FALSE, now |-> 0]

\* The last call: caller is recorded for every call, id for processPayment,
\* arg for setExecutor, success and now (block.timestamp) for a
\* processPayment that did not revert; the other fields stay at their
\* defaults.
PayCall(op, caller, err, id, arg) ==
    [op |-> op, caller |-> caller, err |-> err, id |-> id, arg |-> arg,
     success |-> FALSE, now |-> 0]

NoEmployee ==
    [isActive |-> FALSE, lastPaymentTimestamp |-> 0, totalPayments |-> 0]

PayInit ==
    /\ roles = [r \in Role |-> {PayrollDeployer}]
    /\ executor = PayrollDeployExecutor
    /\ employees = [a \in Addr |-> NoEmployee]
    /\ payments = <<>>
    /\ payLast = NoPayCall

paymentCounter == Len(payments)

\* modifier onlyExecutor
onlyExecutor_anyone(caller) == TRUE

onlyExecutor(caller) == caller = executor

addEmployee ==
    /\ UNCHANGED notPayroll
    /\ \E caller \in RoleCaller :
       \E e \in Unread(~hasAdminRole(caller), EmployeeArg),
          cidZero \in Unread(~hasAdminRole(caller), BOOLEAN) :
           LET err == IF ~hasAdminRole(caller) THEN "missing role"
                      ELSE IF e = ZeroAddr THEN "zero address"
                      ELSE IF employees[e].isActive THEN "employee already exists"
                      ELSE IF cidZero THEN "invalid salary CID"
                      ELSE ""
           IN /\ payLast' = PayCall("addEmployee", caller, err, 0, ZeroAddr)
              /\ employees' = IF err = ""
                               THEN [employees EXCEPT
                                       ![e] = [isActive |-> TRUE,
                                               lastPaymentTimestamp |-> 0,
                                               totalPayments |-> 0]]
                               ELSE employees
              /\ UNCHANGED <<roles, executor, payments>>

removeEmployee ==
    /\ UNCHANGED notPayroll
    /\ \E caller \in RoleCaller, e \in EmployeeArg :
           LET err == IF ~hasAdminRole(caller) THEN "missing role"
                      ELSE IF ~employees[e].isActive THEN "employee not found"
                      ELSE ""
           IN /\ payLast' = PayCall("removeEmployee", caller, err, 0, ZeroAddr)
              /\ employees' = IF err = ""
                               THEN [employees EXCEPT ![e].isActive = FALSE]
                               ELSE employees
              /\ UNCHANGED <<roles, executor, payments>>

\* The roles granted and revoked after deployment; DEFAULT_ADMIN_ROLE stays
\* with the deployer.
GrantedRole == {"ADMIN_ROLE", "PAYROLL_MANAGER_ROLE"}

\* AccessControl.grantRole / revokeRole: the admin role of every role is
\* DEFAULT_ADMIN_ROLE.
grantRole ==
    /\ UNCHANGED notPayroll
    /\ \E caller \in RoleCaller :
       \E role \in Unread(~hasRole("DEFAULT_ADMIN_ROLE", caller), GrantedRole),
          account \in Unread(~hasRole("DEFAULT_ADMIN_ROLE", caller),
                             RoleCaller) :
           LET err == IF ~hasRole("DEFAULT_ADMIN_ROLE", caller)
                      THEN "missing role" ELSE ""
           IN /\ payLast' = PayCall("grantRole", caller, err, 0, ZeroAddr)
              /\ roles' = IF err = ""
                           THEN [roles EXCEPT ![role] = @ \cup {account}]
                           ELSE roles
              /\ UNCHANGED <<executor, employees, payments>>

revokeRole ==
    /\ UNCHANGED notPayroll
    /\ \E caller \in RoleCaller :
       \E role \in Unread(~hasRole("DEFAULT_ADMIN_ROLE", caller), GrantedRole),
          account \in Unread(~hasRole("DEFAULT_ADMIN_ROLE", caller),
                             RoleCaller) :
           LET err == IF ~hasRole("DEFAULT_ADMIN_ROLE", caller)
                      THEN "missing role" ELSE ""
           IN /\ payLast' = PayCall("revokeRole", caller, err, 0, ZeroAddr)
              /\ roles' = IF err = ""
                           THEN [roles EXCEPT ![role] = @ \ {account}]
                           ELSE roles
              /\ UNCHANGED <<executor, employees, payments>>

\* updateSalary(employee, newEncryptedSalaryCid): it writes only the salary
\* CID, which is nonzero for every employee ever added and is read by no
\* other function.
updateSalary ==
    /\ UNCHANGED notPayroll
    /\ \E caller \in RoleCaller :
       \E e \in Unread(~hasAdminRole(caller), EmployeeArg),
          cidZero \in Unread(~hasAdminRole(caller), BOOLEAN) :
           LET err == IF ~hasAdminRole(caller) THEN "missing role"
                      ELSE IF ~employees[e].isActive THEN "employee not found"
                      ELSE IF cidZero THEN "invalid salary CID"
                      ELSE ""
           IN /\ payLast' = PayCall("updateSalary", caller, err, 0, ZeroAddr)
              /\ UNCHANGED <<roles, executor, employees, payments>>

\* The require chain of createPayment after its role check.
createPaymentErr(e, cidZero, periodOk) ==
    IF ~employees[e].isActive THEN "employee not active"
    ELSE IF cidZero THEN "invalid amount CID"
    ELSE IF ~periodOk THEN "invalid pay period"
    ELSE ""

\* createPayment(employee, encryptedAmountCid, payPeriodStart, payPeriodEnd,
\* taxAmountCid, memo); the counter is capped by MaxPayments.
createPayment ==
    /\ UNCHANGED notPayroll
    /\ \E caller \in RoleCaller :
       \E e \in Unread(~hasManagerRole(caller), EmployeeArg),
          cidZero \in Unread(~hasManagerRole(caller), BOOLEAN),
          periodOk \in Unread(~hasManagerRole(caller), BOOLEAN) :
           LET err == IF ~hasManagerRole(caller) THEN "missing role"
                      ELSE createPaymentErr(e, cidZero, periodOk)
           IN /\ paymentCounter < MaxPayments
              /\ payLast' = PayCall("createPayment", caller, err, 0,
                                     ZeroAddr)
              /\ payments' = IF err = ""
                              THEN Append(payments,
                                          [employee |-> e, status |-> "Pending",
                                           changes |-> 0])
                              ELSE payments
              /\ UNCHANGED <<roles, executor, employees>>

\* The employeeAddresses arrays a batch is called with.
Batch == UNION {[1..n -> EmployeeArg] : n \in 0..MaxBatch}

\* createBatchPayment(employeeAddresses, encryptedAmountCids, payPeriodStart,
\* payPeriodEnd, taxAmountCids, memo).  firstZeroCid is the position of the
\* first zero amount CID (0 = none): the loop reverts there at the latest.
\* The role is checked on entry and again by every createPayment of the
\* loop, for the same msg.sender.  The BatchPayment record is read by no
\* state-changing function and is left out.
createBatchPaymentErr(caller, batch, amountsLenOk, taxLenOk, firstZeroCid, periodOk) ==
    LET errAt(i) == IF ~hasManagerRole(caller) THEN "missing role"
                    ELSE createPaymentErr(batch[i], i = firstZeroCid, periodOk)
        bad == {i \in 1..Len(batch) : errAt(i) # ""}
    IN IF ~hasManagerRole(caller) THEN "missing role"
       ELSE IF ~amountsLenOk THEN "length mismatch"
       ELSE IF ~taxLenOk THEN "tax length mismatch"
       ELSE IF Len(batch) = 0 THEN "empty batch"
       ELSE IF bad = {} THEN ""
       ELSE errAt(CHOOSE i \in bad : \A j \in bad : i <= j)

createBatchPayment ==
    /\ UNCHANGED notPayroll
    /\ \E caller \in RoleCaller :
       \E amountsLenOk \in Unread(~hasManagerRole(caller), BOOLEAN) :
       \E taxLenOk \in Unread(~hasManagerRole(caller) \/ ~amountsLenOk,
                              BOOLEAN) :
       \E batch \in Unread(~hasManagerRole(caller) \/ ~amountsLenOk
                               \/ ~taxLenOk, Batch) :
       \E firstZeroCid \in Unread(~hasManagerRole(caller) \/ ~amountsLenOk
                                      \/ ~taxLenOk, 0..Len(batch)),
          periodOk \in Unread(~hasManagerRole(caller) \/ ~amountsLenOk
                                  \/ ~taxLenOk, BOOLEAN) :
           LET err == createBatchPaymentErr(caller, batch, amountsLenOk,
                                            taxLenOk, firstZeroCid, periodOk)
           IN /\ paymentCounter + Len(batch) <= MaxPayments
              /\ payLast' = PayCall("createBatchPayment", caller, err, 0,
                                     ZeroAddr)
              /\ payments' =
                    IF err = ""
                    THEN payments \o
                         [i \in 1..Len(batch) |->
                            [employee |-> batch[i], status |-> "Pending",
                             changes |-> 0]]
                    ELSE payments
              /\ UNCHANGED <<roles, executor, employees>>

\* The require chain of processPayment, in source order.
processPaymentErr_noPendingCheck(caller, paymentId) ==
    IF ~onlyExecutor(caller) THEN "caller is not executor"
    ELSE IF ~(paymentId < paymentCounter) THEN "invalid payment ID"
    ELSE ""

processPaymentErr(caller, paymentId) ==
    IF ~onlyExecutor(caller) THEN "caller is not executor"
    ELSE IF ~(paymentId < paymentCounter) THEN "invalid payment ID"
    ELSE IF payments[paymentId + 1].status # "Pending"
         THEN "payment not pending"
    ELSE ""

\* What a successful processPayment(id, true) does to the paid employee.
paidEmployee_noCount(emp, now) ==
    [emp EXCEPT !.lastPaymentTimestamp = now]

paidEmployee(emp, now) ==
    [emp EXCEPT !.lastPaymentTimestamp = now, !.totalPayments = @ + 1]

\* block.timestamp is never below a timestamp stored by an earlier block.
BlockTime ==
    {t \in Time : \A a \in Addr : employees[a].lastPaymentTimestamp <= t}

processPayment ==
    /\ UNCHANGED notPayroll
    /\ \E caller \in Caller, paymentId \in PaymentId :
       \E success \in Unread(processPaymentErr(caller, paymentId) # "", BOOLEAN),
          now \in Unread(processPaymentErr(caller, paymentId) # "", BlockTime) :
           LET err == processPaymentErr(caller, paymentId)
               pay == payments[paymentId + 1]
               call == PayCall("processPayment", caller, err, paymentId,
                               ZeroAddr)
           IN /\ IF err # ""
                 THEN /\ payLast' = call
                      /\ UNCHANGED <<payments, employees>>
                 ELSE IF success
                 THEN /\ payLast' = [call EXCEPT !.success = TRUE,
                                                 !.now = now]
                      /\ payments' =
                           [payments EXCEPT
                              ![paymentId + 1].status = "Processed",
                              ![paymentId + 1].changes = @ + 1]
                      /\ employees' =
                           [employees EXCEPT
                              ![pay.employee] = paidEmployee(@, now)]
                 ELSE /\ payLast' = call
                      /\ payments' =
                           [payments EXCEPT
                              ![paymentId + 1].status = "Failed",
                              ![paymentId + 1].changes = @ + 1]
                      /\ UNCHANGED employees
              /\ UNCHANGED <<roles, executor>>

setExecutor ==
    /\ UNCHANGED notPayroll
    /\ \E caller \in RoleCaller, newExecutor \in Addr :
           LET err == IF ~hasAdminRole(caller) THEN "missing role"
                      ELSE IF newExecutor = ZeroAddr THEN "zero address"
                      ELSE ""
           IN /\ payLast' = PayCall("setExecutor", caller, err, 0, newExecutor)
              /\ executor' = IF err = "" THEN newExecutor ELSE executor
              /\ UNCHANGED <<roles, employees, payments>>

(***************************************************************************)
(* Claims on SalaryPayroll                                                 *)
(***************************************************************************)
\* C3: a payment's status changes at most once: it is Pending exactly while
\* it has never been processed, a successful processPayment leaves it
\* Processed or Failed, and that is the only change it ever undergoes.
C3_StatusChangesOnce ==
    /\ \A i \in 1..Len(payments) :
          /\ payments[i].changes <= 1
          /\ (payments[i].status = "Pending") <=> (payments[i].changes = 0)
          /\ payments[i].status \in {"Pending", "Processed", "Failed"}
    /\ (payLast.op = "processPayment" /\ payLast.err = "")
          => /\ payments[payLast.id + 1].changes = 1
             /\ payments[payLast.id + 1].status \in {"Processed", "Failed"}

\* C3 witness: processPayment on an already processed payment reverted.
C3_Witness ==
    /\ payLast.op = "processPayment"
    /\ payLast.err = "payment not pending"
    /\ payments[payLast.id + 1].status \in {"Processed", "Failed"}
    /\ payments[payLast.id + 1].changes = 1

\* C4: processPayment succeeds only for the address currently stored in
\* executor and is rejected by the executor check exactly for every other
\* caller; a successful setExecutor stores its argument as the executor.
C4_OnlyCurrentExecutor ==
    /\ payLast.op = "processPayment"
          => /\ (payLast.err = "") => (payLast.caller = executor)
             /\ (payLast.err = "caller is not executor")
                   <=> (payLast.caller # executor)
    /\ (payLast.op = "setExecutor" /\ payLast.err = "")
          => executor = payLast.arg

\* C4 witness: after the executor was replaced, the previous executor's
\* processPayment was rejected.
C4_Witness ==
    /\ payLast.op = "processPayment"
    /\ payLast.caller = PayrollDeployExecutor
    /\ payLast.err = "caller is not executor"
    /\ executor # PayrollDeployExecutor

\* C18: a processPayment(id, true) that does not revert leaves payment id
\* Processed, adds exactly 1 to the paid employee's totalPayments, sets
\* their lastPaymentTimestamp to the block time and changes nothing else of
\* any employee; a processPayment(id, false) that does not revert leaves the
\* payment Failed and every employee record as it was.
C18_ProcessPaymentEffect ==
    [][(payLast'.op = "processPayment" /\ payLast'.err = "")
          => LET i == payLast'.id + 1
                 e == payments[i].employee
             IN IF payLast'.success
                THEN /\ payments'[i].status = "Processed"
                     /\ employees' =
                          [employees EXCEPT
                             ![e].totalPayments = employees[e].totalPayments + 1,
                             ![e].lastPaymentTimestamp = payLast'.now]
                ELSE /\ payments'[i].status = "Failed"
                     /\ employees' = employees]_vars

\* C18 witness: a payment was processed at a block time later than the
\* employee's previous payment, which was counted too.
C18_Witness ==
    /\ payLast.op = "processPayment"
    /\ payLast.err = ""
    /\ payLast.success
    /\ payLast.now > 1
    /\ employees[payments[payLast.id + 1].employee].totalPayments = 2

\* The arithmetic of Solidity 0.8 reverts with a panic on overflow.
Uint == 0..MaxUint

NoHistory == [employee |-> ZeroAddr, offset |-> 0, limit |-> 0,
              called |-> FALSE, panic |-> FALSE, result |-> <<>>]

HistoryIdle == history = NoHistory

\* getPaymentHistory, first pass: count matching payments.  The sum
\* offset + limit is evaluated when a matching payment is met with
\* count >= offset.
RECURSIVE countMatching(_, _, _, _, _)
countMatching(employee, offset, limit, i, count) ==
    IF ~(i < paymentCounter) THEN [panic |-> FALSE, count |-> count]
    ELSE IF payments[i + 1].employee # employee
         THEN countMatching(employee, offset, limit, i + 1, count)
    ELSE IF count >= offset
         THEN IF offset + limit > MaxUint
              THEN [panic |-> TRUE, count |-> count]
              ELSE IF count < offset + limit
                   THEN countMatching(employee, offset, limit, i + 1, count + 1)
                   ELSE [panic |-> FALSE, count |-> count]
    ELSE countMatching(employee, offset, limit, i + 1, count + 1)

\* getPaymentHistory, second pass: populate result (payments are named by
\* their id).
RECURSIVE populate(_, _, _, _, _, _)
populate(employee, offset, size, i, count, res) ==
    IF ~(i < paymentCounter /\ Len(res) < size) THEN res
    ELSE IF payments[i + 1].employee # employee
         THEN populate(employee, offset, size, i + 1, count, res)
    ELSE populate(employee, offset, size, i + 1, count + 1,
                  IF count >= offset THEN Append(res, i) ELSE res)

getPaymentHistory(employee, offset, limit) ==
    LET pass1 == countMatching(employee, offset, limit, 0, 0)
        count == pass1.count
        size0 == IF count > offset THEN count - offset ELSE 0
        size == IF size0 > limit THEN limit ELSE size0
    IN IF pass1.panic THEN [panic |-> TRUE, result |-> <<>>]
       ELSE [panic |-> FALSE,
             result |-> populate(employee, offset, size, 0, 0, <<>>)]

\* A call of the view function.
callGetPaymentHistory ==
    /\ UNCHANGED notHistory
    /\ \E employee \in Addr, offset \in Uint, limit \in Uint :
          LET ret == getPaymentHistory(employee, offset, limit)
          IN history' = [employee |-> employee, offset |-> offset,
                         limit |-> limit, called |-> TRUE,
                         panic |-> ret.panic, result |-> ret.result]

\* The ids of the payments of an employee, in creation order.
PaymentsOf(employee) ==
    LET ids == {i \in 0..(paymentCounter - 1) :
                   payments[i + 1].employee = employee}
        f[n \in 0..Cardinality(ids)] ==
            IF n = 0 THEN <<>>
            ELSE Append(f[n - 1],
                        CHOOSE i \in ids :
                            Cardinality({j \in ids : j < i}) = n - 1)
    IN f[Cardinality(ids)]

Min2(a, b) == IF a < b THEN a ELSE b

\* C22: getPaymentHistory(employee, offset, limit) returns the payments of
\* that employee, in creation order, from position offset of the
\* employee's payment list, min(limit, max(0, k - offset)) of them, where k
\* is the number of the employee's payments.
C22_ReturnsEmployeePage ==
    history.called
       => LET own == PaymentsOf(history.employee)
              k == Len(own)
              n == Min2(history.limit,
                        IF k > history.offset THEN k - history.offset ELSE 0)
          IN /\ ~history.panic
             /\ history.result = [j \in 1..n |-> own[history.offset + j]]

\* The same for the calls whose offset + limit fits a uint256.
C22_PageUnlessOverflow ==
    (history.called /\ history.offset + history.limit <= MaxUint)
       => C22_ReturnsEmployeePage

AdminOps == {"addEmployee", "removeEmployee", "updateSalary", "setExecutor"}
ManagerOps == {"createPayment", "createBatchPayment"}

\* C21: addEmployee, removeEmployee, updateSalary and setExecutor are
\* rejected for a missing role exactly when the caller does not hold
\* ADMIN_ROLE, createPayment and createBatchPayment exactly when the caller
\* does not hold PAYROLL_MANAGER_ROLE; so each succeeds only for a holder of
\* its role, and holding the other role does not help.
C21_AccessControlMatrix ==
    /\ payLast.op \in AdminOps
          => /\ (payLast.err = "missing role")
                   <=> (payLast.caller \notin roles["ADMIN_ROLE"])
             /\ (payLast.err = "")
                   => (payLast.caller \in roles["ADMIN_ROLE"])
    /\ payLast.op \in ManagerOps
          => /\ (payLast.err = "missing role")
                   <=> (payLast.caller \notin roles["PAYROLL_MANAGER_ROLE"])
             /\ (payLast.err = "")
                   => (payLast.caller \in roles["PAYROLL_MANAGER_ROLE"])

\* C21 witness: an account holding ADMIN_ROLE but not PAYROLL_MANAGER_ROLE
\* was refused a batch payment, after payments had been created.
C21_Witness ==
    /\ payLast.op = "createBatchPayment"
    /\ payLast.err = "missing role"
    /\ payLast.caller \in roles["ADMIN_ROLE"]
    /\ payLast.caller \notin roles["PAYROLL_MANAGER_ROLE"]
    /\ Len(payments) > 0

\* The payments to employee a that were processed.
ProcessedPayments(a) ==
    {i \in 1..Len(payments) :
        payments[i].employee = a /\ payments[i].status = "Processed"}

\* C38: for every address, employees[a].totalPayments equals the number of
\* Processed payments to a.
C38_TotalPaymentsCountsProcessed ==
    \A a \in Addr :
        employees[a].totalPayments = Cardinality(ProcessedPayments(a))

(***************************************************************************)
(* FHE executor server                                                     *)
(***************************************************************************)
\* FHE_OPERATION_REGISTRY, keyed by a short name of each IR digest.  Compute
\* stack slots are named by strings: "0", "1", "2" are the inputs.
PlanStep(op, inputs, constant, output) ==
    [op |-> op, inputs |-> inputs, constant |-> constant, output |-> output]

FHE_OPERATION_REGISTRY ==
    [add |->
        [name |-> "binary_add", input_slots |-> 2,
         execution_plan |-> <<PlanStep("add", <<"0", "1">>, 0, "result")>>],
     defi |->
        [name |-> "defi_operation", input_slots |-> 3,
         execution_plan |-> <<PlanStep("dynamic", <<>>, 0, "result")>>],
     withdraw |->
        [name |-> "withdraw_with_check", input_slots |-> 2,
         execution_plan |->
            <<PlanStep("ge", <<"0", "1">>, 0, "temp_a"),
              PlanStep("sub", <<"0", "1">>, 0, "temp_b"),
              PlanStep("select", <<"temp_a", "temp_b", "0">>, 0, "result")>>],
     mul |->
        [name |-> "complex_borrow_check", input_slots |-> 3,
         execution_plan |->
            <<PlanStep("smull_constant", <<"1">>, 2, "temp_a"),
              PlanStep("ge", <<"0", "temp_a">>, 0, "temp_b"),
              PlanStep("add", <<"2", "1">>, 0, "temp_d"),
              PlanStep("select", <<"temp_b", "temp_d", "2">>, 0, "result")>>],
     health |->
        [name |-> "liquidation_health_check", input_slots |-> 3,
         execution_plan |->
            <<PlanStep("smull", <<"0", "2">>, 0, "collateral_value"),
              PlanStep("smull_constant", <<"1">>, 2, "debt_threshold"),
              PlanStep("gt", <<"collateral_value", "debt_threshold">>, 0,
                       "result")>>]]

RegisteredDigest == DOMAIN FHE_OPERATION_REGISTRY
\* job.ir_digest: a registered digest, an unregistered one, or none ("")
Digest == RegisteredDigest \cup {"unknown", ""}

\* One input of a job: a ciphertext array of the expected length, an array
\* of any other length, or an entry without ciphertext data.
InputKind == {"ok", "badlen", "nodata"}

RECURSIVE SeqsUpTo(_, _)
SeqsUpTo(S, n) ==
    IF n = 0 THEN {<<>>}
    ELSE LET shorter == SeqsUpTo(S, n - 1)
         IN shorter \cup
            {Append(q, x) : q \in {r \in shorter : Len(r) = n - 1}, x \in S}

Job == [ir_digest : Digest, ciphertexts : SeqsUpTo(InputKind, MaxInputs)]
NoJob == [ir_digest |-> "", ciphertexts |-> <<"none">>]

Slot == {"0", "1", "2", "temp_a", "temp_b", "temp_d", "collateral_value",
         "debt_threshold", "result"}
InputSlot(i) == CASE i = 1 -> "0" [] i = 2 -> "1" [] i = 3 -> "2"
                  [] OTHER -> "none"

NoResult == [done |-> FALSE, success |-> FALSE, error |-> ""]
Failure(msg) == [done |-> TRUE, success |-> FALSE, error |-> msg]
Success == [done |-> TRUE, success |-> TRUE, error |-> ""]

\* How a pollForJobs went: where it stands or ended, and the rateLimiter
\* method it called.
Poll(outcome, limiter) == [outcome |-> outcome, limiter |-> limiter]
NoPoll == Poll("none", "none")

\* The finally block of pollForJobs: isProcessing after the poll ended by
\* a return (threw = FALSE) or in the catch block (threw = TRUE).
finallyIsProcessing_onlyOnReturn(threw) == threw /\ isProcessing

finallyIsProcessing(threw) == FALSE

ExInit ==
    /\ exPc = "start"
    /\ bootLoaded = FALSE
    /\ secretKey = FALSE
    /\ isProcessing = FALSE
    /\ job = NoJob
    /\ claimed = FALSE
    /\ heap = <<>>
    /\ inputPtrs = <<>>
    /\ computeStack = [k \in Slot |-> 0]
    /\ stepIndex = 0
    /\ result = NoResult
    /\ nativeCalls = {}
    /\ submitted = <<>>
    /\ lastPoll = NoPoll

\* initFHE16(): GenEval returning null makes it return false; a failing
\* bootparamLoadFileGlobal is caught and only logged; loadSecretKey catches
\* its own failure.  The return value is the outcome of GenEval alone.
initFHE16(genOk, bootOk, skOk) == genOk

\* start(): initFHE16, then exit(1) or the polling loop
start ==
    /\ UNCHANGED notExecutor
    /\ exPc = "start"
    /\ \E genOk \in BOOLEAN, bootOk \in BOOLEAN, skOk \in BOOLEAN :
           /\ bootLoaded' = (genOk /\ bootOk)
           /\ secretKey' = (genOk /\ skOk)
           /\ exPc' = IF initFHE16(genOk, bootOk, skOk) THEN "idle"
                      ELSE "exited"
    /\ UNCHANGED <<isProcessing, job, claimed, heap, inputPtrs, computeStack,
                   stepIndex, result, nativeCalls, submitted,
                   lastPoll>>

\* fetchJobs, claimJob and submitResult wrap http.request in a promise that
\* is settled by the 'end' event of the response or the 'error' event of
\* the request; no timeout is set, so while the gatehouse holds the
\* connection open without answering, the promise stays pending.
RequestOutcome == {"error", "answer", "no answer"}

\* pollForJobs(), up to the await of claimJob.  fetched is the outcome of
\* fetchJobs: "error" (rejected), "empty" (no job), "job", or "no answer".
pollFetch ==
    /\ UNCHANGED notExecutor
    /\ exPc = "idle"
    /\ ~isProcessing
    /\ \E fetched \in {"error", "empty", "job", "no answer"} :
           IF fetched = "job"
           THEN /\ job' \in Job
                /\ isProcessing' = TRUE
                /\ exPc' = "claim"
                /\ lastPoll' = Poll("handling", "none")
           ELSE IF fetched = "no answer"
           THEN /\ job' = NoJob
                /\ exPc' = "awaitFetch"
                /\ lastPoll' = Poll("fetching", "none")
                /\ UNCHANGED isProcessing
           ELSE /\ job' = NoJob
                /\ isProcessing' = finallyIsProcessing(fetched = "error")
                /\ lastPoll' = IF fetched = "error"
                               THEN Poll("fetch failed", "recordError")
                               ELSE Poll("no job", "recordSuccess")
                /\ UNCHANGED exPc
    /\ claimed' = FALSE
    /\ heap' = <<>>
    /\ inputPtrs' = <<>>
    /\ computeStack' = [k \in Slot |-> 0]
    /\ stepIndex' = 0
    /\ result' = NoResult
    /\ nativeCalls' = {}
    /\ submitted' = <<>>
    /\ UNCHANGED <<bootLoaded, secretKey>>

\* claimJob called without await: the computation goes on while the claim
\* request is still in flight.
pollClaim_notAwaited ==
    /\ UNCHANGED notExecutor
    /\ exPc = "claim"
    /\ exPc' = "exec"
    /\ UNCHANGED <<bootLoaded, secretKey, isProcessing, job, claimed, heap,
                   inputPtrs, computeStack, stepIndex, result, nativeCalls,
                   submitted, lastPoll>>

\* await claimJob(jobPda): a rejected request ends the poll in the catch and
\* finally blocks; any parsed response, whatever it says, lets it go on.
pollClaim ==
    /\ UNCHANGED notExecutor
    /\ exPc = "claim"
    /\ \E response \in {"error", "accepted", "refused", "no answer"} :
           IF response = "error"
           THEN /\ exPc' = "idle"
                /\ isProcessing' = finallyIsProcessing(TRUE)
                /\ lastPoll' = Poll("claim failed", "recordError")
                /\ UNCHANGED claimed
           ELSE IF response = "no answer"
           THEN /\ exPc' = "awaitClaim"
                /\ UNCHANGED <<isProcessing, lastPoll, claimed>>
           ELSE /\ exPc' = "exec"
                /\ claimed' = TRUE
                /\ lastPoll' = Poll(IF response = "accepted" THEN "claimed"
                                    ELSE "claim refused", "none")
                /\ UNCHANGED isProcessing
    /\ UNCHANGED <<bootLoaded, secretKey, job, heap, inputPtrs, computeStack,
                   stepIndex, result, nativeCalls, submitted>>

\* executeFHEComputation(job), up to the call of
\* executeUniversalFHEComputation: the checks that throw, in source order.
executeFHEComputationErr_noCountCheck(j) ==
    IF j.ir_digest = "" THEN "IR digest is required for computation"
    ELSE IF j.ir_digest \notin RegisteredDigest THEN "Unknown IR digest"
    ELSE IF \E i \in 1..Len(j.ciphertexts) : j.ciphertexts[i] = "nodata"
    THEN "Missing ciphertext data"
    ELSE ""

executeFHEComputationErr(j) ==
    IF j.ir_digest = "" THEN "IR digest is required for computation"
    ELSE IF j.ir_digest \notin RegisteredDigest THEN "Unknown IR digest"
    ELSE LET operation == FHE_OPERATION_REGISTRY[j.ir_digest]
             count == Len(j.ciphertexts)
         IN IF /\ operation.name # "defi_operation"
               /\ count # operation.input_slots
            THEN "Input mismatch"
            ELSE IF /\ operation.name = "defi_operation"
                    /\ (count < 2 \/ count > 3)
            THEN "DeFi operation requires 2-3 inputs"
            ELSE IF \E i \in 1..count : j.ciphertexts[i] = "nodata"
            THEN "Missing ciphertext data"
            ELSE ""

execBegin ==
    /\ UNCHANGED notExecutor
    /\ exPc = "exec"
    /\ LET err == executeFHEComputationErr(job)
       IN IF err # ""
          THEN /\ result' = Failure(err)
               /\ exPc' = "submit"
          ELSE /\ exPc' = IF Len(job.ciphertexts) = 0 THEN "plan"
                          ELSE "convert"
               /\ UNCHANGED result
    /\ UNCHANGED <<bootLoaded, secretKey, isProcessing, job, claimed, heap,
                   inputPtrs, computeStack, stepIndex, nativeCalls,
                   submitted,
                   lastPoll>>

\* A native FHE16 primitive returns a pointer to a ciphertext buffer of its
\* own: the new buffer is appended to the heap; data names what it holds.
Buffer(by, data) == [by |-> by, data |-> data]

\* convertJSONToInt32Ptr(ciphertextArray), first half: the length check
convertLengthOk_unchecked(kind) == TRUE

convertLengthOk(kind) == kind = "ok"

\* convertJSONToInt32Ptr, up to FHE16.encInt(0, 32): the dummy ciphertext
convertAlloc ==
    /\ UNCHANGED notExecutor
    /\ exPc = "convert"
    /\ LET i == Len(inputPtrs) + 1
       IN IF ~convertLengthOk(job.ciphertexts[i])
          THEN /\ result' = Failure("Invalid ciphertext length")
               /\ exPc' = "submit"
               /\ UNCHANGED <<heap, nativeCalls>>
          ELSE \E dummyOk \in BOOLEAN :
                 /\ nativeCalls' = nativeCalls \cup {"encInt"}
                 /\ IF dummyOk
                    THEN /\ heap' = Append(heap,
                                           Buffer("encInt", <<"encInt", 0>>))
                         /\ exPc' = "fill"
                         /\ UNCHANGED result
                    ELSE /\ result' =
                              Failure("Failed to create dummy ciphertext")
                         /\ exPc' = "submit"
                         /\ UNCHANGED heap
    /\ UNCHANGED <<bootLoaded, secretKey, isProcessing, job, claimed,
                   inputPtrs, computeStack, stepIndex, submitted,
                   lastPoll>>

\* convertJSONToInt32Ptr, second half: the words of the JSON array are
\* written over the dummy ciphertext, whose pointer is returned; after the
\* last input the compute stack is initialised with the input pointers.
convertFill ==
    /\ UNCHANGED notExecutor
    /\ exPc = "fill"
    /\ LET i == Len(inputPtrs) + 1
           ptr == Len(heap)
           ptrs == Append(inputPtrs, ptr)
       IN /\ heap' = [heap EXCEPT ![ptr].data = <<"json", i>>]
          /\ inputPtrs' = ptrs
          /\ IF i < Len(job.ciphertexts)
             THEN /\ exPc' = "convert"
                  /\ UNCHANGED computeStack
             ELSE /\ exPc' = "plan"
                  /\ computeStack' =
                       [k \in Slot |->
                          IF \E n \in 1..Len(ptrs) : InputSlot(n) = k
                          THEN ptrs[CHOOSE n \in 1..Len(ptrs) :
                                      InputSlot(n) = k]
                          ELSE 0]
    /\ UNCHANGED <<bootLoaded, secretKey, isProcessing, job, claimed,
                   stepIndex, result, nativeCalls, submitted,
                   lastPoll>>

\* The native calls of one plan step, in call order, as <<primitive,
\* operand pointers>>; an operand that is itself a result of this step is
\* written as the negated position of the call that made it.
StepCalls(step, stack, nInputs) ==
    LET in(n) == stack[step.inputs[n]]
    IN CASE step.op = "dynamic" /\ nInputs = 2 ->
              <<<<"ge", <<stack["0"], stack["1"]>>>>,
                <<"neg", <<stack["1"]>>>>,
                <<"add", <<stack["0"], -2>>>>,
                <<"select", <<-1, -3, stack["0"]>>>>>>
         [] step.op = "dynamic" /\ nInputs = 3 ->
              <<<<"smullConst_i32", <<stack["1"]>>>>,
                <<"ge", <<stack["0"], -1>>>>,
                <<"add", <<stack["2"], stack["1"]>>>>,
                <<"select", <<-2, -3, stack["2"]>>>>>>
         [] step.op = "add" -> <<<<"add", <<in(1), in(2)>>>>>>
         [] step.op = "sub" -> <<<<"sub", <<in(1), in(2)>>>>>>
         [] step.op = "ge" -> <<<<"ge", <<in(1), in(2)>>>>>>
         [] step.op = "smull" -> <<<<"smull", <<in(1), in(2)>>>>>>
         [] step.op = "smull_constant" -> <<<<"smullConst_i32", <<in(1)>>>>>>
         [] step.op = "gt" -> <<<<"gt", <<in(1), in(2)>>>>>>
         [] step.op = "select" -> <<<<"select", <<in(1), in(2), in(3)>>>>>>
         [] OTHER -> <<>>

\* The heap after the calls: one new buffer per call
RECURSIVE RunCalls(_, _, _)
RunCalls(h, calls, base) ==
    IF calls = <<>> THEN h
    ELSE LET call == Head(calls)
             args == [n \in 1..Len(call[2]) |->
                        IF call[2][n] < 0 THEN base - call[2][n]
                        ELSE call[2][n]]
         IN RunCalls(Append(h, Buffer(call[1], <<call[1], args>>)),
                     Tail(calls), base)

\* One iteration of the execution-plan loop of
\* executeUniversalFHEComputation
planStep ==
    /\ UNCHANGED notExecutor
    /\ exPc = "plan"
    /\ LET plan == FHE_OPERATION_REGISTRY[job.ir_digest].execution_plan
           step == plan[stepIndex + 1]
           calls == StepCalls(step, computeStack, Len(inputPtrs))
           after == RunCalls(heap, calls, Len(heap))
       IN /\ stepIndex < Len(plan)
          /\ heap' = after
          /\ nativeCalls' = nativeCalls \cup
                              {calls[n][1] : n \in 1..Len(calls)}
          /\ computeStack' = [computeStack EXCEPT ![step.output] = Len(after)]
          /\ stepIndex' = stepIndex + 1
          /\ exPc' = IF stepIndex + 1 = Len(plan) THEN "finish" ELSE "plan"
    /\ UNCHANGED <<bootLoaded, secretKey, isProcessing, job, claimed,
                   inputPtrs, result, submitted,
                   lastPoll>>

\* The end of executeUniversalFHEComputation and of executeFHEComputation:
\* the result buffer is read back (and, with a secret key, decrypted)
execFinish ==
    /\ UNCHANGED notExecutor
    /\ exPc = "finish"
    /\ result' = IF computeStack["result"] = 0
                 THEN Failure("Execution plan did not produce a result")
                 ELSE Success
    /\ nativeCalls' = IF computeStack["result"] # 0 /\ secretKey
                      THEN nativeCalls \cup {"decInt"}
                      ELSE nativeCalls
    /\ exPc' = "submit"
    /\ UNCHANGED <<bootLoaded, secretKey, isProcessing, job, claimed, heap,
                   inputPtrs, computeStack, stepIndex, submitted,
                   lastPoll>>

\* await submitResult(jobPda, result.success, ..., result.error || null, ...)
\* and the rest of pollForJobs: the request is sent; when it is rejected the
\* catch block runs, else rateLimiter.recordSuccess(); then the finally
\* block.
pollSubmit ==
    /\ UNCHANGED notExecutor
    /\ exPc = "submit"
    /\ submitted' = Append(submitted,
                           [success |-> result.success,
                            error |-> result.error])
    /\ \E outcome \in RequestOutcome :
          IF outcome = "no answer"
          THEN /\ exPc' = "awaitSubmit"
               /\ UNCHANGED <<isProcessing, lastPoll>>
          ELSE /\ exPc' = "idle"
               /\ isProcessing' = finallyIsProcessing(outcome = "error")
               /\ lastPoll' = IF outcome = "error"
                              THEN Poll("submit failed", "recordError")
                              ELSE Poll("done", "recordSuccess")
    /\ UNCHANGED <<bootLoaded, secretKey, job, claimed, heap, inputPtrs,
                   computeStack, stepIndex, result, nativeCalls>>

(***************************************************************************)
(* Claims on the executor                                                  *)
(***************************************************************************)
\* C5: when the boot parameter table was not loaded, the executor does not
\* get past startup: no job is ever fetched, claimed or computed.
C5_NoPollingWithoutBootParam ==
    (job # NoJob) => bootLoaded

\* C6: the direct native subtraction primitive is never invoked while a job
\* is evaluated.
C6_NativeSubNeverCalled ==
    "sub" \notin nativeCalls

\* C7: for a claimed job with an input of the wrong length no plan step is
\* evaluated, and once it is handled exactly one result has been submitted,
\* with success=false and a non-empty error message.
HasBadLength(j) == \E i \in 1..Len(j.ciphertexts) : j.ciphertexts[i] = "badlen"

C7_MalformedInputRejected ==
    (claimed /\ HasBadLength(job))
        => /\ stepIndex = 0
           /\ nativeCalls \subseteq {"encInt"}
           /\ Len(submitted) <= 1
           /\ (exPc = "idle") => (Len(submitted) = 1)
           /\ \A k \in 1..Len(submitted) :
                  ~submitted[k].success /\ submitted[k].error # ""

\* C7 witness: a registered two-input job whose second input has the wrong
\* length was claimed, failed in the input conversion and was reported.
C7_Witness ==
    /\ claimed
    /\ exPc = "idle"
    /\ job = [ir_digest |-> "withdraw", ciphertexts |-> <<"ok", "badlen">>]
    /\ submitted = <<[success |-> FALSE,
                      error |-> "Invalid ciphertext length"]>>

\* C10: the contents of an existing ciphertext buffer are never modified.
C10_BuffersNeverModified ==
    [][\A p \in 1..Len(heap) : p <= Len(heap') => heap'[p] = heap[p]]_vars

\* Where pollForJobs stands while it handles a job, and where the FHE
\* computation has started.
Handling ==
    {"claim", "awaitClaim", "exec", "convert", "fill", "plan", "finish",
     "submit", "awaitSubmit"}
Computing == Handling \ {"claim", "awaitClaim"}

\* C23: a job is claimed only after it was fetched, the computation starts
\* only after the claim request has completed, a result is submitted only
\* after the computation has returned one, and a poll that ends with no
\* request failed has submitted exactly one result for its claimed job.
C23_StepsInOrder ==
    /\ claimed => job # NoJob
    /\ (\/ exPc \in Computing
        \/ nativeCalls # {}
        \/ Len(heap) > 0
        \/ stepIndex > 0
        \/ result.done) => claimed
    /\ Len(submitted) > 0 => (claimed /\ result.done)
    /\ Len(submitted) <= 1
    /\ lastPoll.outcome = "done" => (claimed /\ Len(submitted) = 1)

\* C23 witness: a job with a plan of several steps went through fetch,
\* claim, computation and submission.
C23_Witness ==
    /\ lastPoll.outcome = "done"
    /\ claimed
    /\ stepIndex > 1
    /\ result.success
    /\ Len(submitted) = 1

\* C30: isProcessing is true exactly while a fetched job is being handled
\* (from the claim request to the end of the submission) and false as soon
\* as the handling has ended, by a return or by a throw; while it is true
\* the job being handled is not replaced by another one and no second
\* result is submitted.
C30_SequentialJobs ==
    /\ [](isProcessing <=> exPc \in Handling)
    /\ [][isProcessing => (job' = job /\ Len(submitted') <= 1)]_vars

\* C30 witness: a poll that threw at the claim request has ended and
\* isProcessing is false again.
C30_Witness ==
    /\ lastPoll.outcome = "claim failed"
    /\ exPc = "idle"
    /\ job # NoJob

\* C31: the polling loop never stops: whatever a poll runs into, the
\* gatehouse not answering included, the poll ends and the next one is
\* scheduled.
C31_AlwaysPollsAgain ==
    [](exPc \notin {"start", "exited"} => <>(exPc = "idle"))

\* The number of input ciphertexts differs from what the operation takes.
WrongInputCount(j) ==
    /\ j.ir_digest \in RegisteredDigest
    /\ LET operation == FHE_OPERATION_REGISTRY[j.ir_digest]
       IN IF operation.name = "defi_operation"
          THEN Len(j.ciphertexts) \notin {2, 3}
          ELSE Len(j.ciphertexts) # operation.input_slots

Unrunnable(j) ==
    \/ j.ir_digest = ""
    \/ j.ir_digest \notin RegisteredDigest
    \/ WrongInputCount(j)

\* C32: for a job without IR digest, with an unregistered digest or with
\* the wrong number of inputs, executeFHEComputation returns success=false
\* with an error message, and no FHE primitive is invoked.
C32_UnrunnableJobFails ==
    (claimed /\ Unrunnable(job))
        => /\ exPc \notin {"convert", "fill", "plan", "finish"}
           /\ nativeCalls = {}
           /\ heap = <<>>
           /\ stepIndex = 0
           /\ exPc # "exec"
                 => (result.done /\ ~result.success /\ result.error # "")

\* C32 witness: binary_add was given three inputs and returned a failure.
C32_Witness ==
    /\ claimed
    /\ job = [ir_digest |-> "add", ciphertexts |-> <<"ok", "ok", "ok">>]
    /\ result = Failure("Input mismatch")
    /\ nativeCalls = {}

\* C34: when the gatehouse refused the claim, no computation is run and no
\* result is submitted for the job.
C34_OnlyAcceptedClaimsComputed ==
    lastPoll.outcome = "claim refused"
        => /\ exPc \notin Computing
           /\ nativeCalls = {}
           /\ ~result.done
           /\ Len(submitted) = 0

\* C35: a poll that ended in a failure (a failed fetch, claim or submit
\* request, or a computation that returned success=false) called
\* rateLimiter.recordError() and not recordSuccess().
C35_FailureRecordsError ==
    (\/ lastPoll.outcome \in {"fetch failed", "claim failed", "submit failed"}
     \/ (lastPoll.outcome = "done" /\ ~result.success))
        => lastPoll.limiter = "recordError"
    /\ ~isProcessing

(***************************************************************************)
(* Browser FHE16Client (one singleton instance, concurrent async calls)    *)
(***************************************************************************)
Task == 1..MaxTasks
Method == {"init", "loadPublicKey", "encrypt", "encryptBinary"}
IsEncrypt(m) == m \in {"encrypt", "encryptBinary"}

NoTask == [method |-> "none", pc |-> "new"]

ClInit ==
    /\ clScript = FALSE
    /\ clModule = 0
    /\ initialized = FALSE
    /\ pkLoaded = FALSE
    /\ modules = <<>>
    /\ task = [t \in Task |-> NoTask]
    /\ pkSetCalls = 0
    /\ encLog = {}

\* this.module._FHE16_ENC_WASM / _FHE16_ENC_BIN on the current module
EncOn(m) == [params |-> modules[m].params, pk |-> modules[m].pk]

clFrame == <<clScript, clModule, initialized, pkLoaded, modules, pkSetCalls,
             encLog>>

\* The synchronous head of init(): returns at once when initialized,
\* otherwise awaits loadScript or window.createFHE16
InitHead(t, m) ==
    IF initialized
    THEN IF m = "init" THEN "done" ELSE "afterInit"
    ELSE IF ~clScript THEN "awaitScript" ELSE "awaitCreate"

\* The part of loadPublicKey() after its init check: returns when the key is
\* loaded, otherwise awaits fetch('/pk.bin')
LoadPkBody(m) ==
    IF pkLoaded
    THEN IF m = "loadPublicKey" THEN "done" ELSE "afterLoadPk"
    ELSE "awaitFetch"

\* A call of init(), loadPublicKey(), encrypt() or encryptBinary(), run up
\* to its first await
call ==
    /\ UNCHANGED notClient
    /\ \E t \in Task, m \in Method :
           /\ task[t].pc = "new"
           /\ IF IsEncrypt(m) /\ pkLoaded
              THEN /\ encLog' = encLog \cup {EncOn(clModule)}
                   /\ task' = [task EXCEPT ![t] =
                                 [method |-> m, pc |-> "done"]]
              ELSE /\ task' = [task EXCEPT ![t] =
                                 [method |-> m,
                                  pc |-> IF m = "init" \/ ~initialized
                                         THEN InitHead(t, m)
                                         ELSE LoadPkBody(m)]]
                   /\ UNCHANGED encLog
    /\ UNCHANGED <<clScript, clModule, initialized, pkLoaded, modules,
                   pkSetCalls>>

\* await this.loadScript('/fhe16.js') settles
scriptDone ==
    /\ UNCHANGED notClient
    /\ \E t \in Task, ok \in BOOLEAN :
           /\ task[t].pc = "awaitScript"
           /\ clScript' = (clScript \/ ok)
           /\ task' = [task EXCEPT ![t].pc =
                         IF ok THEN "awaitCreate" ELSE "failed"]
    /\ UNCHANGED <<clModule, initialized, pkLoaded, modules, pkSetCalls,
                   encLog>>

\* await window.createFHE16(...) settles: the new instance becomes
\* this.module, its parameters are initialised, initialized is set
createDone ==
    /\ UNCHANGED notClient
    /\ \E t \in Task, ok \in BOOLEAN :
           /\ task[t].pc = "awaitCreate"
           /\ IF ok
              THEN /\ modules' = Append(modules,
                                        [params |-> TRUE, pk |-> FALSE])
                   /\ clModule' = Len(modules) + 1
                   /\ initialized' = TRUE
                   /\ task' = [task EXCEPT ![t].pc =
                                 IF task[t].method = "init" THEN "done"
                                 ELSE "afterInit"]
              ELSE /\ task' = [task EXCEPT ![t].pc = "failed"]
                   /\ UNCHANGED <<modules, clModule, initialized>>
    /\ UNCHANGED <<clScript, pkLoaded, pkSetCalls, encLog>>

\* loadPublicKey() resumes after await this.init()
afterInit ==
    /\ UNCHANGED notClient
    /\ \E t \in Task :
           /\ task[t].pc = "afterInit"
           /\ task' = [task EXCEPT ![t].pc = LoadPkBody(task[t].method)]
    /\ UNCHANGED clFrame

\* await fetch('/pk.bin') settles; !response.ok throws
fetchDone ==
    /\ UNCHANGED notClient
    /\ \E t \in Task, ok \in BOOLEAN :
           /\ task[t].pc = "awaitFetch"
           /\ task' = [task EXCEPT ![t].pc =
                         IF ok THEN "awaitBody" ELSE "failed"]
    /\ UNCHANGED clFrame

\* await response.arrayBuffer() settles: _FHE16_set_pk on this.module
setPk ==
    /\ UNCHANGED notClient
    /\ \E t \in Task :
           /\ task[t].pc = "awaitBody"
           /\ modules' = [modules EXCEPT ![clModule].pk = TRUE]
           /\ pkSetCalls' = pkSetCalls + 1
           /\ pkLoaded' = TRUE
           /\ task' = [task EXCEPT ![t].pc =
                         IF task[t].method = "loadPublicKey" THEN "done"
                         ELSE "afterLoadPk"]
    /\ UNCHANGED <<clScript, clModule, initialized, encLog>>

\* encrypt() / encryptBinary() resumes after await this.loadPublicKey()
encryptTail ==
    /\ UNCHANGED notClient
    /\ \E t \in Task :
           /\ task[t].pc = "afterLoadPk"
           /\ encLog' = encLog \cup {EncOn(clModule)}
           /\ task' = [task EXCEPT ![t].pc = "done"]
    /\ UNCHANGED <<clScript, clModule, initialized, pkLoaded, modules,
                   pkSetCalls>>

(***************************************************************************)
(* Claims on FHE16Client                                                   *)
(***************************************************************************)
\* C8: however the calls interleave, the WASM module is created and its
\* parameters initialised exactly once and the public key is set exactly once.
C8_InitialisedOnce ==
    /\ Len(modules) <= 1
    /\ pkSetCalls <= 1

\* C9: every invocation of the encryption primitive runs on a module
\* instance whose parameters are initialised and whose public key is set.
C9_EncryptOnReadyModule ==
    \A e \in encLog : e.params /\ e.pk

(***************************************************************************)
(* Ciphertext codec (lib/fhe16/crypto.js)                                  *)
(***************************************************************************)
\* A ciphertext has CtWords 32-bit words (33296 in the source, scaled down);
\* Date.now() ranges over Time; a run makes at most MaxCodecCalls calls.
CtWords == 2
MaxCodecCalls == 2

BytesPerWord == 4
MaxInt32 == 2147483647
MinInt32 == (-MaxInt32) - 1
SchemeTag == "FHE16_0.0.1v"

\* The values a JavaScript array element can hold, by how ToInt32 treats
\* them: an integer in the int32 range, v + 2^32 ("big"), v + 0.5 for
\* v >= 0 ("frac"), and a value that converts to NaN ("nan").
JsInt(v) == [kind |-> "int", v |-> v]
JsValue ==
    {JsInt(v) : v \in {MinInt32, -1, 0, 258, MaxInt32}}
        \cup {[kind |-> "big", v |-> 0], [kind |-> "frac", v |-> 1],
              [kind |-> "nan", v |-> 0]}

\* Int32Array.from(array): each element goes through ToInt32.
ToInt32(e) == IF e.kind = "nan" THEN 0 ELSE e.v

\* Byte i (0 = lowest) of the two's complement image of an int32.
ByteOf(v, i) == (v \div (256 ^ i)) % 256

\* Buffer.from(Int32Array.from(data).buffer)
WordsToBytes(data) ==
    [i \in 1..(BytesPerWord * Len(data)) |->
        ByteOf(ToInt32(data[((i - 1) \div BytesPerWord) + 1]),
               (i - 1) % BytesPerWord)]

\* One element of new Int32Array(buffer.buffer, ...): word k (from 1).
WordAt(bytes, k) ==
    LET b(i) == bytes[BytesPerWord * (k - 1) + i + 1]
        top == IF b(3) >= 128 THEN b(3) - 256 ELSE b(3)
    IN b(0) + 256 * b(1) + 65536 * b(2) + 16777216 * top

\* Array.from(new Int32Array(buffer.buffer, byteOffset, byteLength / 4))
BytesToWords(bytes) ==
    [k \in 1..(Len(bytes) \div BytesPerWord) |-> JsInt(WordAt(bytes, k))]

\* Values handed between the codec functions.
Ct(present, isArray, data, scheme, timestamp) ==
    [type |-> "ct", present |-> present, isArray |-> isArray,
     encrypted_data |-> data, scheme |-> scheme, timestamp |-> timestamp]
Buf(present, bytes) == [type |-> "buffer", present |-> present, bytes |-> bytes]
Hex(present, prefix, digits) ==
    [type |-> "hex", present |-> present, prefix |-> prefix, digits |-> digits]
Thrown(error) == [type |-> "thrown", error |-> error]
NoValue == [type |-> "none"]

Fill(n, x) == [i \in 1..n |-> x]

\* Ciphertext objects offered to the codec: every array of CtWords elements,
\* arrays of a wrong length, a non-array, a wrong scheme, a zero timestamp,
\* and a missing object.
CtInput ==
    {Ct(TRUE, TRUE, d, s, t) :
        d \in [1..CtWords -> JsValue] \cup {Fill(n, JsInt(0)) : n \in {0, CtWords + 1}},
        s \in {SchemeTag, "other"}, t \in 0..MaxTime}
        \cup {Ct(TRUE, FALSE, <<>>, SchemeTag, 1),
              Ct(FALSE, FALSE, <<>>, "", 0)}

\* Buffers offered to deserializeCiphertext directly: every length up to one
\* byte more than a ciphertext, and a missing buffer.
BufInput ==
    {Buf(TRUE, Fill(n, x)) : n \in 0..(BytesPerWord * CtWords + 1), x \in {0, 255}}
        \cup {Buf(FALSE, <<>>)}

\* Hex strings offered to hexToCiphertext directly; digit 16 stands for a
\* character that is no hex digit.
HexDigit == 0..15
BadDigit == 16
HexInput ==
    {Hex(TRUE, p, Fill(n, x)) :
        p \in BOOLEAN, n \in 0..(2 * BytesPerWord * CtWords + 2), x \in {15}}
        \cup {Hex(TRUE, TRUE, [Fill(2 * BytesPerWord * CtWords, 0) EXCEPT ![n] = BadDigit]) :
                 n \in 1..(2 * BytesPerWord * CtWords)}
        \cup {Hex(FALSE, FALSE, <<>>)}

validateCiphertext(ct) ==
    /\ ct.present
    /\ ct.isArray
    /\ Len(ct.encrypted_data) = CtWords
    /\ ct.scheme = SchemeTag
    /\ ct.timestamp # 0

serializeCiphertext(ct) ==
    IF ~validateCiphertext(ct) THEN Thrown("Invalid ciphertext")
    ELSE Buf(TRUE, WordsToBytes(ct.encrypted_data))

\* The guard of deserializeCiphertext.
deserializeSizeOk_unchecked(buffer) == buffer.present

deserializeSizeOk(buffer) ==
    buffer.present /\ Len(buffer.bytes) = CtWords * BytesPerWord

deserializeCiphertext(buffer, now) ==
    IF ~deserializeSizeOk(buffer)
    THEN Thrown("Invalid buffer size for FHE16 ciphertext")
    ELSE Ct(TRUE, TRUE, BytesToWords(buffer.bytes), SchemeTag, now)

\* buffer.toString('hex'): two digits per byte, high nibble first.
BytesToHex(bytes) ==
    [i \in 1..(2 * Len(bytes)) |->
        LET b == bytes[((i - 1) \div 2) + 1]
        IN IF i % 2 = 1 THEN b \div 16 ELSE b % 16]

ciphertextToHex(ct) ==
    LET buffer == serializeCiphertext(ct)
    IN IF buffer.type = "thrown" THEN buffer
       ELSE Hex(TRUE, TRUE, BytesToHex(buffer.bytes))

\* Buffer.from(cleanHex, 'hex') decodes digit pairs up to the first pair
\* that holds a character that is no hex digit; a trailing odd digit is
\* dropped.
GoodPairs(digits) ==
    LET pairs == Len(digits) \div 2
        bad == {k \in 1..pairs : digits[2 * k - 1] = BadDigit
                                    \/ digits[2 * k] = BadDigit}
    IN IF bad = {} THEN pairs
       ELSE (CHOOSE k \in bad : \A j \in bad : k <= j) - 1

HexToBytes(digits) ==
    [k \in 1..GoodPairs(digits) |-> 16 * digits[2 * k - 1] + digits[2 * k]]

hexToCiphertext(hex, now) ==
    IF ~hex.present THEN Thrown("TypeError")
    ELSE deserializeCiphertext(Buf(TRUE, HexToBytes(hex.digits)), now)

\* The codec is idle in the other machines' specifications.
CodecIdle ==
    /\ cdOrig = NoValue
    /\ cdVal = NoValue
    /\ cdOps = <<>>
    /\ cdBufLen = -2

\* The first call's argument is any offered value.
CodecInit ==
    /\ cdOrig \in CtInput \cup BufInput \cup HexInput
    /\ cdVal = cdOrig
    /\ cdOps = <<>>
    /\ cdBufLen = -2

BufLenOf(buffer) == IF buffer.present THEN Len(buffer.bytes) ELSE -1

callSerializeCiphertext ==
    /\ UNCHANGED notCodec
    /\ Len(cdOps) < MaxCodecCalls
    /\ cdVal.type = "ct"
    /\ cdVal' = serializeCiphertext(cdVal)
    /\ cdOps' = Append(cdOps, "serializeCiphertext")
    /\ UNCHANGED <<cdOrig, cdBufLen>>

callDeserializeCiphertext ==
    /\ UNCHANGED notCodec
    /\ Len(cdOps) < MaxCodecCalls
    /\ cdVal.type = "buffer"
    /\ \E now \in Time : cdVal' = deserializeCiphertext(cdVal, now)
    /\ cdOps' = Append(cdOps, "deserializeCiphertext")
    /\ cdBufLen' = BufLenOf(cdVal)
    /\ UNCHANGED cdOrig

callCiphertextToHex ==
    /\ UNCHANGED notCodec
    /\ Len(cdOps) < MaxCodecCalls
    /\ cdVal.type = "ct"
    /\ cdVal' = ciphertextToHex(cdVal)
    /\ cdOps' = Append(cdOps, "ciphertextToHex")
    /\ UNCHANGED <<cdOrig, cdBufLen>>

callHexToCiphertext ==
    /\ UNCHANGED notCodec
    /\ Len(cdOps) < MaxCodecCalls
    /\ cdVal.type = "hex"
    /\ \E now \in Time : cdVal' = hexToCiphertext(cdVal, now)
    /\ cdOps' = Append(cdOps, "hexToCiphertext")
    /\ cdBufLen' = IF cdVal.present THEN GoodPairs(cdVal.digits) ELSE -1
    /\ UNCHANGED cdOrig

(***************************************************************************)
(* Claims on the codec                                                     *)
(***************************************************************************)
LastCodecOp == IF cdOps = <<>> THEN "" ELSE cdOps[Len(cdOps)]

\* C11: deserializeCiphertext, and hexToCiphertext through it, throws and
\* returns no ciphertext whenever the buffer it is given is missing or is
\* not exactly one ciphertext long (CtWords * BytesPerWord bytes).
C11_WrongSizeRejected ==
    (/\ LastCodecOp \in {"deserializeCiphertext", "hexToCiphertext"}
     /\ cdBufLen # CtWords * BytesPerWord)
        => cdVal.type = "thrown"

\* C11 witness: an empty buffer was rejected by deserializeCiphertext.
C11_Witness ==
    /\ LastCodecOp = "deserializeCiphertext"
    /\ cdBufLen = 0
    /\ cdVal = Thrown("Invalid buffer size for FHE16 ciphertext")

\* C12: for every x accepted by validateCiphertext, deserializing the
\* serialization of x, or decoding the hex encoding of x, gives back x.
C12_ExactRoundTrip ==
    (/\ cdOrig.type = "ct"
     /\ validateCiphertext(cdOrig)
     /\ \/ cdOps = <<"serializeCiphertext", "deserializeCiphertext">>
        \/ cdOps = <<"ciphertextToHex", "hexToCiphertext">>)
        => cdVal = cdOrig

(***************************************************************************)
(* CERC20                                                                  *)
(***************************************************************************)
\* CIDs are 0 (bytes32(0)) and 1..MaxCid.
MaxCid == 1
ZeroCid == 0
Cid == 0..MaxCid

CercDeployer == 1            \* Ownable(msg.sender)
CercDeployExecutor == 2      \* constructor argument _executor
MaxCiphertextBytes == 200000

\* Encrypted data is told apart by its length only; the lengths offered are
\* the empty blob, one byte, the cap and one byte more than the cap.
DataLen == {0, 1, MaxCiphertextBytes, MaxCiphertextBytes + 1}

\* SHA-256 of a blob, as a CID: blobs hash to nonzero CIDs, and two blobs of
\* the offered lengths 1 and MaxCiphertextBytes hash to different CIDs.
Sha256(len) == 1 + (len % (MaxCid + 1))

NoCiphertext == [encryptedData |-> 0, timestamp |-> 0, exists |-> FALSE]

NoCercCall == [op |-> "none", caller |-> ZeroAddr, err |-> "", cid |-> ZeroCid]

\* The last call; caller is recorded for updateBalance only.
CercCall(op, caller, err, cid) ==
    [op |-> op, caller |-> caller, err |-> err, cid |-> cid]

\* Callers that differ in nothing the contract looks at: one stands for all.
AnyCaller == {MaxAddr}

CercInit ==
    /\ tokenExecutor = CercDeployExecutor
    /\ encryptedTotalSupply = ZeroCid
    /\ encryptedBalances = [a \in Addr |-> ZeroCid]
    /\ encryptedAllowances = [o \in Addr, s \in Addr |-> ZeroCid]
    /\ ciphertexts = [c \in Cid |-> NoCiphertext]
    /\ cercFirst = [c \in Cid |-> NoCiphertext]
    /\ cercRegistrations = [c \in Cid |-> 0]
    /\ cercLast = NoCercCall

cercStored == <<tokenExecutor, encryptedTotalSupply, encryptedBalances,
                encryptedAllowances, ciphertexts>>

\* modifier onlyExecutor of CERC20
cercOnlyExecutor(caller) == caller = tokenExecutor

onlyOwner(caller) == caller = CercDeployer

\* The size requirements of registerCiphertext.
sizeErr_uncapped(len) ==
    IF ~(len > 0) THEN "empty ciphertext" ELSE ""

sizeErr(len) ==
    IF ~(len > 0) THEN "empty ciphertext"
    ELSE IF ~(len <= MaxCiphertextBytes) THEN "ciphertext too large"
    ELSE ""

\* The require chain of registerCiphertext, in source order.
registerCiphertextErr_noExistsCheck(cid, len) ==
    IF cid = ZeroCid THEN "invalid CID"
    ELSE sizeErr(len)

registerCiphertextErr(cid, len) ==
    IF cid = ZeroCid THEN "invalid CID"
    ELSE IF ciphertexts[cid].exists THEN "CID already exists"
    ELSE sizeErr(len)

registerCiphertext ==
    /\ UNCHANGED notCerc
    /\ \E caller \in AnyCaller, cid \in Cid, len \in DataLen :
       \E now \in Unread(registerCiphertextErr(cid, len) # "", Time) :
           LET err == registerCiphertextErr(cid, len)
               entry == [encryptedData |-> len, timestamp |-> now,
                         exists |-> TRUE]
           IN /\ cercLast' = CercCall("registerCiphertext", ZeroAddr, err, cid)
              /\ IF err = ""
                 THEN /\ ciphertexts' = [ciphertexts EXCEPT ![cid] = entry]
                      /\ cercFirst' =
                           IF cercRegistrations[cid] = 0
                           THEN [cercFirst EXCEPT ![cid] = entry]
                           ELSE cercFirst
                      /\ cercRegistrations' =
                           [cercRegistrations EXCEPT ![cid] = @ + 1]
                 ELSE UNCHANGED <<ciphertexts, cercFirst, cercRegistrations>>
              /\ UNCHANGED <<tokenExecutor, encryptedTotalSupply,
                             encryptedBalances, encryptedAllowances>>

\* The require chain of updateBalance, in source order.
updateBalanceErr_noRegisteredCheck(caller, account, cid) ==
    IF ~cercOnlyExecutor(caller) THEN "caller is not executor"
    ELSE IF account = ZeroAddr THEN "zero address"
    ELSE ""

updateBalanceErr(caller, account, cid) ==
    IF ~cercOnlyExecutor(caller) THEN "caller is not executor"
    ELSE IF account = ZeroAddr THEN "zero address"
    ELSE IF ~ciphertexts[cid].exists THEN "CID not registered"
    ELSE ""

updateBalance ==
    /\ UNCHANGED notCerc
    /\ \E caller \in Caller :
       \E account \in Unread(~cercOnlyExecutor(caller), ZeroOrNot),
          newBalanceCid \in Unread(~cercOnlyExecutor(caller), Cid) :
           LET err == updateBalanceErr(caller, account, newBalanceCid)
           IN /\ cercLast' = CercCall("updateBalance", caller, err,
                                      newBalanceCid)
              /\ encryptedBalances' =
                   IF err = ""
                   THEN [encryptedBalances EXCEPT ![account] = newBalanceCid]
                   ELSE encryptedBalances
              /\ UNCHANGED <<tokenExecutor, encryptedTotalSupply,
                             encryptedAllowances, ciphertexts, cercFirst,
                             cercRegistrations>>

\* transfer only emits Transfer; nonReentrant restores its flag on return.
transfer_movesBalance ==
    /\ UNCHANGED notCerc
    /\ \E caller \in AnyCaller, to \in ZeroOrNot, cid \in Cid :
           LET err == IF to = ZeroAddr THEN "transfer to zero address"
                      ELSE IF cid = ZeroCid THEN "invalid amount CID"
                      ELSE IF ~ciphertexts[cid].exists
                           THEN "amount CID not registered"
                      ELSE ""
           IN /\ cercLast' = CercCall("transfer", ZeroAddr, err, cid)
              /\ encryptedBalances' =
                   IF err = "" THEN [encryptedBalances EXCEPT ![to] = cid]
                   ELSE encryptedBalances
              /\ UNCHANGED <<tokenExecutor, encryptedTotalSupply,
                             encryptedAllowances, ciphertexts, cercFirst,
                             cercRegistrations>>

transfer ==
    /\ UNCHANGED notCerc
    /\ \E caller \in AnyCaller, to \in ZeroOrNot, cid \in Cid :
           LET err == IF to = ZeroAddr THEN "transfer to zero address"
                      ELSE IF cid = ZeroCid THEN "invalid amount CID"
                      ELSE IF ~ciphertexts[cid].exists
                           THEN "amount CID not registered"
                      ELSE ""
           IN /\ cercLast' = CercCall("transfer", ZeroAddr, err, cid)
              /\ UNCHANGED <<cercStored, cercFirst, cercRegistrations>>

approve ==
    /\ UNCHANGED notCerc
    /\ \E caller \in AnyCaller, spender \in ZeroOrNot, cid \in Cid :
           LET err == IF spender = ZeroAddr THEN "approve to zero address"
                      ELSE IF ~ciphertexts[cid].exists
                           THEN "amount CID not registered"
                      ELSE ""
           IN /\ cercLast' = CercCall("approve", ZeroAddr, err, cid)
              /\ encryptedAllowances' =
                   IF err = ""
                   THEN [encryptedAllowances EXCEPT ![caller, spender] = cid]
                   ELSE encryptedAllowances
              /\ UNCHANGED <<tokenExecutor, encryptedTotalSupply,
                             encryptedBalances, ciphertexts, cercFirst,
                             cercRegistrations>>

\* mint and burn share their checks; both only emit an event.
mintOrBurnErr(caller, who, cid) ==
    IF ~onlyOwner(caller) THEN "caller is not the owner"
    ELSE IF who = ZeroAddr THEN "zero address"
    ELSE IF ~ciphertexts[cid].exists THEN "amount CID not registered"
    ELSE ""

mint ==
    /\ UNCHANGED notCerc
    /\ \E caller \in Caller :
       \E to \in Unread(~onlyOwner(caller), ZeroOrNot),
          cid \in Unread(~onlyOwner(caller), Cid) :
           /\ cercLast' = CercCall("mint", ZeroAddr,
                                   mintOrBurnErr(caller, to, cid), cid)
           /\ UNCHANGED <<cercStored, cercFirst, cercRegistrations>>

burn ==
    /\ UNCHANGED notCerc
    /\ \E caller \in Caller :
       \E from \in Unread(~onlyOwner(caller), ZeroOrNot),
          cid \in Unread(~onlyOwner(caller), Cid) :
           /\ cercLast' = CercCall("burn", ZeroAddr,
                                   mintOrBurnErr(caller, from, cid), cid)
           /\ UNCHANGED <<cercStored, cercFirst, cercRegistrations>>

\* CERC20.setExecutor
cercSetExecutor ==
    /\ UNCHANGED notCerc
    /\ \E caller \in Caller, newExecutor \in Addr :
           LET err == IF ~onlyOwner(caller) THEN "caller is not the owner"
                      ELSE IF newExecutor = ZeroAddr THEN "zero address"
                      ELSE ""
           IN /\ cercLast' = CercCall("setExecutor", ZeroAddr, err, ZeroCid)
              /\ tokenExecutor' = IF err = "" THEN newExecutor
                                  ELSE tokenExecutor
              /\ UNCHANGED <<encryptedTotalSupply, encryptedBalances,
                             encryptedAllowances, ciphertexts, cercFirst,
                             cercRegistrations>>

updateTotalSupply ==
    /\ UNCHANGED notCerc
    /\ \E caller \in Caller, newTotalSupplyCid \in Cid :
           LET err == IF ~cercOnlyExecutor(caller)
                      THEN "caller is not executor"
                      ELSE IF ~ciphertexts[newTotalSupplyCid].exists
                           THEN "CID not registered"
                      ELSE ""
           IN /\ cercLast' = CercCall("updateTotalSupply", ZeroAddr, err,
                                      newTotalSupplyCid)
              /\ encryptedTotalSupply' =
                   IF err = "" THEN newTotalSupplyCid
                   ELSE encryptedTotalSupply
              /\ UNCHANGED <<tokenExecutor, encryptedBalances,
                             encryptedAllowances, ciphertexts, cercFirst,
                             cercRegistrations>>

(***************************************************************************)
(* Claims on CERC20                                                        *)
(***************************************************************************)
\* C13: every ciphertext in the registry is stored under the SHA-256 hash
\* of its encrypted data.
C13_StoredUnderItsHash ==
    \A c \in Cid :
        ciphertexts[c].exists => c = Sha256(ciphertexts[c].encryptedData)

\* C14: a CID is registered at most once, registerCiphertext reverts for a
\* registered CID, and the record of a registered CID stays what its first
\* registration stored.
C14_RegisteredOnce ==
    /\ \A c \in Cid :
          /\ cercRegistrations[c] <= 1
          /\ ciphertexts[c].exists <=> (cercRegistrations[c] = 1)
          /\ ciphertexts[c] = cercFirst[c]
    /\ (cercLast.op = "registerCiphertext" /\ cercLast.err = "")
          => cercRegistrations[cercLast.cid] = 1

\* C14 witness: a second registration of a registered CID reverted.
C14_Witness ==
    /\ cercLast.op = "registerCiphertext"
    /\ cercLast.err = "CID already exists"
    /\ ciphertexts[cercLast.cid].exists
    /\ cercRegistrations[cercLast.cid] = 1

\* C15: every registry entry has a nonzero CID and between 1 and
\* MaxCiphertextBytes bytes of data; registerCiphertext never succeeds for
\* the zero CID.
C15_RegistryWellFormed ==
    /\ \A c \in Cid :
          ciphertexts[c].exists
             => /\ c # ZeroCid
                /\ ciphertexts[c].encryptedData >= 1
                /\ ciphertexts[c].encryptedData <= MaxCiphertextBytes
    /\ (cercLast.op = "registerCiphertext" /\ cercLast.err = "")
          => cercLast.cid # ZeroCid

\* C15 witness: a registration of an oversized blob under a nonzero, free
\* CID was rejected and stored nothing.
C15_Witness ==
    /\ cercLast.op = "registerCiphertext"
    /\ cercLast.err = "ciphertext too large"
    /\ cercLast.cid # ZeroCid
    /\ ~ciphertexts[cercLast.cid].exists

\* C16: a balance CID changes only in a successful updateBalance made by
\* the current executor with a registered CID, and every balance CID is
\* zero or a registered CID.
C16_BalanceOnlyByExecutor ==
    /\ [](\A a \in Addr : \/ encryptedBalances[a] = ZeroCid
                          \/ ciphertexts[encryptedBalances[a]].exists)
    /\ [][\A a \in Addr :
             encryptedBalances'[a] # encryptedBalances[a]
                => /\ cercLast'.op = "updateBalance"
                   /\ cercLast'.err = ""
                   /\ cercLast'.caller = tokenExecutor
                   /\ cercLast'.cid = encryptedBalances'[a]
                   /\ ciphertexts[cercLast'.cid].exists]_vars

\* C16 witness: the executor has set a balance to a registered CID.
C16_Witness ==
    /\ cercLast.op = "updateBalance"
    /\ cercLast.err = ""
    /\ \E a \in Addr : /\ encryptedBalances[a] = cercLast.cid
                       /\ encryptedBalances[a] # ZeroCid

\* C17: a call of transfer, mint or burn, successful or reverted, leaves
\* the balances, allowances, total supply, registry and executor as they
\* were.
C17_TransferMintBurnPure ==
    [][cercLast'.op \in {"transfer", "mint", "burn"}
          => UNCHANGED cercStored]_vars

\* C17 witness: a transfer succeeded while a balance was set.
C17_Witness ==
    /\ cercLast.op = "transfer"
    /\ cercLast.err = ""
    /\ \E a \in Addr : encryptedBalances[a] # ZeroCid

(***************************************************************************)
(* RateLimiter (executor/rate-limiter.js) and its configuration            *)
(***************************************************************************)
\* A JavaScript number that may be NaN.
Num(n) == [nan |-> FALSE, n |-> n]
NaN == [nan |-> TRUE, n |-> 0]

\* An environment variable: unset (or empty), the text of an integer, or
\* text that is no number.
EnvUnset == [kind |-> "unset", n |-> 0]
EnvNumber(n) == [kind |-> "number", n |-> n]
EnvText == [kind |-> "text", n |-> 0]

\* parseInt(process.env.X || 'd') and parseFloat(process.env.X || 'd');
\* only integer multipliers are modelled.
parseIntEnv(e, d) ==
    IF e.kind = "unset" THEN Num(d)
    ELSE IF e.kind = "number" THEN Num(e.n)
    ELSE NaN

\* options.x || d: NaN and 0 are falsy.
OrDefault(v, d) == IF v.nan \/ v.n = 0 THEN d ELSE v.n

\* new RateLimiter(options): the configuration part of the constructor.
RateLimiterConfig(options) ==
    [minInterval |-> OrDefault(options.minInterval, 1000),
     maxInterval |-> OrDefault(options.maxInterval, 60000),
     initialInterval |-> OrDefault(options.initialInterval, 5000),
     backoffMultiplier |-> OrDefault(options.backoffMultiplier, 2),
     recoveryRate |-> OrDefault(options.recoveryRate, 1000)]

\* The options the executor builds from its environment.
ExecutorOptions(env) ==
    [minInterval |-> parseIntEnv(env.MIN_POLL_INTERVAL, 1000),
     maxInterval |-> parseIntEnv(env.MAX_POLL_INTERVAL, 60000),
     initialInterval |-> parseIntEnv(env.POLL_INTERVAL, 5000),
     backoffMultiplier |-> parseIntEnv(env.BACKOFF_MULTIPLIER, 2),
     recoveryRate |-> parseIntEnv(env.RECOVERY_RATE, 1000)]

\* The environments the executor is started in.
Environment ==
    [MIN_POLL_INTERVAL : {EnvUnset, EnvNumber(2000)},
     MAX_POLL_INTERVAL : {EnvUnset, EnvNumber(4000)},
     POLL_INTERVAL : {EnvUnset, EnvText, EnvNumber(0), EnvNumber(500),
                      EnvNumber(120000)},
     BACKOFF_MULTIPLIER : {EnvUnset, EnvNumber(3)},
     RECOVERY_RATE : {EnvUnset, EnvNumber(500)}]

NoEnvironment ==
    [MIN_POLL_INTERVAL |-> EnvUnset, MAX_POLL_INTERVAL |-> EnvUnset,
     POLL_INTERVAL |-> EnvUnset, BACKOFF_MULTIPLIER |-> EnvUnset,
     RECOVERY_RATE |-> EnvUnset]

\* The documented configurations: the defaults (.env.example) and the one
\* of test-rate-limiter.js.
RateDefaults == RateLimiterConfig(ExecutorOptions(NoEnvironment))

TestOptions ==
    [minInterval |-> Num(1000), maxInterval |-> Num(10000),
     initialInterval |-> Num(2000), backoffMultiplier |-> Num(2),
     recoveryRate |-> Num(500)]

DocumentedConfig == {RateDefaults, RateLimiterConfig(TestOptions)}

\* new RateLimiter(options): the state part of the constructor.
\* lastRequestTime and startTime feed getStats only and are left out.
RateInit(config) ==
    /\ rlConfig = config
    /\ currentInterval = config.initialInterval
    /\ consecutiveErrors = 0
    /\ consecutiveSuccesses = 0
    /\ totalRequests = 0
    /\ totalErrors = 0
    /\ rlLast = "constructor"

Max2(a, b) == IF a > b THEN a ELSE b

\* Math.max(this.minInterval, this.currentInterval - this.recoveryRate)
recover_noFloor(interval, config) == interval - config.recoveryRate

recover(interval, config) ==
    Max2(config.minInterval, interval - config.recoveryRate)

\* Math.min(this.maxInterval, this.currentInterval * this.backoffMultiplier)
backoff_noCap(interval, config) == interval * config.backoffMultiplier

backoff(interval, config) ==
    Min2(config.maxInterval, interval * config.backoffMultiplier)

\* The request counters are capped by MaxRequests.
recordSuccess ==
    /\ UNCHANGED notRate
    /\ totalRequests < MaxRequests
    /\ totalRequests' = totalRequests + 1
    /\ consecutiveSuccesses' = consecutiveSuccesses + 1
    /\ consecutiveErrors' = 0
    /\ currentInterval' = recover(currentInterval, rlConfig)
    /\ rlLast' = "recordSuccess"
    /\ UNCHANGED <<rlConfig, totalErrors>>

recordError ==
    /\ UNCHANGED notRate
    /\ totalRequests < MaxRequests
    /\ totalRequests' = totalRequests + 1
    /\ totalErrors' = totalErrors + 1
    /\ consecutiveErrors' = consecutiveErrors + 1
    /\ consecutiveSuccesses' = 0
    /\ currentInterval' = backoff(currentInterval, rlConfig)
    /\ rlLast' = "recordError"
    /\ UNCHANGED rlConfig

reset ==
    /\ UNCHANGED notRate
    /\ currentInterval' = rlConfig.initialInterval
    /\ consecutiveErrors' = 0
    /\ consecutiveSuccesses' = 0
    /\ rlLast' = "reset"
    /\ UNCHANGED <<rlConfig, totalRequests, totalErrors>>

(***************************************************************************)
(* Claims on RateLimiter                                                   *)
(***************************************************************************)
\* C24: every recordError sets the interval to the current interval times
\* backoffMultiplier, capped at maxInterval; with the default
\* configuration, 1, 2, 3 and 4 consecutive errors from the initial
\* interval give 10 s, 20 s, 40 s and 60 s.
C24_ExponentialBackoff ==
    /\ [][rlLast' = "recordError"
            => currentInterval' =
                 Min2(rlConfig.maxInterval,
                      currentInterval * rlConfig.backoffMultiplier)]_vars
    /\ []((/\ rlConfig = RateDefaults
           /\ totalRequests = consecutiveErrors
           /\ consecutiveErrors \in 1..4)
             => currentInterval =
                  <<10000, 20000, 40000, 60000>>[consecutiveErrors])

\* C24 witness: the fourth consecutive error of a limiter with the default
\* configuration: 80 s is capped to 60 s.
C24_Witness ==
    /\ rlConfig = RateDefaults
    /\ rlLast = "recordError"
    /\ totalRequests = 4
    /\ consecutiveErrors = 4
    /\ currentInterval = 60000

\* C25: minInterval <= currentInterval <= maxInterval, right after
\* construction and after every sequence of calls, for every configuration
\* built from the environment.
C25_IntervalWithinBounds ==
    /\ rlConfig.minInterval <= currentInterval
    /\ currentInterval <= rlConfig.maxInterval

Clock == 0..MaxClock

NoRequest == [called |-> FALSE, allowed |-> FALSE]

\* new FixedWindowLimiter({maxRequests, windowMs}) at time 0
WindowInit ==
    /\ fwClock = 0
    /\ requestCount = 0
    /\ windowStart = 0
    /\ fwWindows = {0}
    /\ fwGrants = [t \in Clock |-> 0]
    /\ fwLast = NoRequest

\* Time passes between two calls.
fwTick ==
    /\ UNCHANGED notWindow
    /\ fwClock < MaxClock
    /\ fwClock' = fwClock + 1
    /\ UNCHANGED <<requestCount, windowStart, fwWindows, fwGrants, fwLast>>

\* if (now - this.windowStart >= this.windowMs)
windowExpired(now) == now - windowStart >= windowMs

\* if (this.requestCount < this.maxRequests)
underLimit_orEqual(count) == count <= maxRequests

underLimit(count) == count < maxRequests

tryRequest ==
    /\ UNCHANGED notWindow
    /\ LET now == fwClock
           count == IF windowExpired(now) THEN 0 ELSE requestCount
           allowed == underLimit(count)
       IN /\ windowStart' = IF windowExpired(now) THEN now ELSE windowStart
          /\ fwWindows' = fwWindows \cup {windowStart'}
          /\ requestCount' = IF allowed THEN count + 1 ELSE count
          /\ fwGrants' = IF allowed
                         THEN [fwGrants EXCEPT ![now] = @ + 1]
                         ELSE fwGrants
          /\ fwLast' = [called |-> TRUE, allowed |-> allowed]
    /\ UNCHANGED fwClock

(***************************************************************************)
(* Claims on FixedWindowLimiter                                            *)
(***************************************************************************)
\* The calls that returned true in the windowMs period starting at w.
RECURSIVE GrantsFrom(_, _)
GrantsFrom(t, n) ==
    IF n = 0 \/ t > MaxClock THEN 0
    ELSE fwGrants[t] + GrantsFrom(t + 1, n - 1)

\* C27: in the windowMs period starting at any value windowStart has had,
\* tryRequest returned true at most maxRequests times; a call that returns
\* false leaves requestCount as it was; and requestCount restarts only in
\* a call made when the window has expired, which starts a new window.
C27_FixedWindow ==
    /\ [](\A w \in fwWindows : GrantsFrom(w, windowMs) <= maxRequests)
    /\ [][(fwLast'.called /\ ~fwLast'.allowed)
            => requestCount' = requestCount]_vars
    /\ [][(requestCount' < requestCount \/ windowStart' # windowStart)
            => /\ fwClock - windowStart >= windowMs
               /\ windowStart' = fwClock
               /\ requestCount' <= 1]_vars

\* C27 witness: the window is full, a call in it was refused, and an
\* earlier window had been used up as well.
C27_Witness ==
    /\ fwLast.called
    /\ ~fwLast.allowed
    /\ requestCount = maxRequests
    /\ windowStart > 0
    /\ GrantsFrom(0, windowMs) = maxRequests

(***************************************************************************)
(* FHE16 binding (lib/fhe16/fhe16.js) over the native library               *)
(***************************************************************************)
\* The native library libFHE16.so is not part of the sources.  Following
\* the specification, an integer ciphertext carries the two's complement
\* bits of its plaintext, lowest first, one LWE sample per bit, and
\* FHE16_ADD is an adder over these samples whose noise stays within the
\* budget for one addition of fresh ciphertexts.
IntBits == 32

\* Bit i (0 = lowest) of the two's complement image of an int32.
BitOf(v, i) ==
    IF i = IntBits - 1 THEN (IF v < 0 THEN 1 ELSE 0)
    ELSE (v \div (2 ^ i)) % 2

\* FHE16_ENCInt(int msg, int bit)
FHE16_ENCInt(msg, bit) == [i \in 1..bit |-> BitOf(msg, i - 1)]

\* The value of the bits below position n.
RECURSIVE LowBits(_, _)
LowBits(ct, n) ==
    IF n = 0 THEN 0
    ELSE LowBits(ct, n - 1) + ct[n] * (2 ^ (n - 1))

\* FHE16_DECInt(int* ct, int* sk): the top bit is the sign.
FHE16_DECInt(ct, sk) ==
    LET n == Len(ct)
        low == LowBits(ct, n - 1)
    IN IF ct[n] = 0 THEN low
       ELSE IF n = IntBits THEN (low - MaxInt32) - 1
       ELSE low - (2 ^ (n - 1))

\* FHE16_ADD(int* a, int* b): bit by bit with carry; the carry out of the
\* top bit is dropped.
RECURSIVE AddBits(_, _, _, _)
AddBits(a, b, i, carry) ==
    IF i > Len(a) THEN <<>>
    ELSE LET sum == a[i] + b[i] + carry
         IN <<sum % 2>> \o AddBits(a, b, i + 1, sum \div 2)

FHE16_ADD(a, b) == AddBits(a, b, 1, 0)

\* encInt(msg, bit) { return fnEncInt(msg|0, bit|0); }
encInt_width16(msg, bit) == FHE16_ENCInt(ToInt32(msg), 16)

encInt(msg, bit) == FHE16_ENCInt(ToInt32(msg), ToInt32(bit))

\* decInt(ctPtr, skPtr) { return Number(fnDecInt(ctPtr, skPtr)); }  The
\* library exports FHE16_DECInt, so the fallback through FHE16_DEC is not
\* taken; every int32 is a safe integer, which Number() leaves as it is.
decInt(ctPtr, skPtr) == FHE16_DECInt(ctPtr, skPtr)

\* add(a,b) { ...; return fnAdd(a,b); }
add_firstTwice(a, b) == FHE16_ADD(a, a)

add(a, b) == FHE16_ADD(a, b)

\* FHE16_NEG(int* a): the additive inverse modulo 2^32, every bit inverted
\* and one added.
FHE16_NEG(a) ==
    AddBits([i \in 1..Len(a) |-> 1 - a[i]],
            [i \in 1..Len(a) |-> IF i = 1 THEN 1 ELSE 0], 1, 0)

\* FHE16_SUB(int* a, int* b): a + (-b)
FHE16_SUB(a, b) == FHE16_ADD(a, FHE16_NEG(b))

\* The plaintext a ciphertext carries.
PlainOf(ct) == FHE16_DECInt(ct, "secret.bin")

\* FHE16_GE(int* a, int* b): the ciphertext of the single bit (a >= b),
\* the operands compared as signed integers.
FHE16_GE(a, b) == <<IF PlainOf(a) >= PlainOf(b) THEN 1 ELSE 0>>

\* FHE16_SELECT(int* sel, int* a, int* b): sel ? a : b
FHE16_SELECT(sel, a, b) == IF sel[1] = 1 THEN a ELSE b

\* sub(a,b){ ...; return fnSub(a,b); }
sub(a, b) == FHE16_SUB(a, b)

\* ge(a,b){ ...; return fnGE(a,b); }
ge(a, b) == FHE16_GE(a, b)

\* neg(ct){ ...; return fnNEG(ct); }
neg(ct) == FHE16_NEG(ct)

\* select(sel,a,b){ ...; return fnSELECT(sel,a,b); }
select_swapped(sel, a, b) == FHE16_SELECT(sel, b, a)

select(sel, a, b) == FHE16_SELECT(sel, a, b)

\* The ciphertext in buffer p of heap h, the buffers being those that
\* convertJSONToInt32Ptr and the plan steps of
\* executeUniversalFHEComputation allocate; ins are the input ciphertexts
\* of the job.
RECURSIVE CtOf(_, _, _)
CtOf(h, p, ins) ==
    LET d == h[p].data
        arg(n) == CtOf(h, d[2][n], ins)
    IN CASE d[1] = "json" -> ins[d[2]]
         [] d[1] = "add" -> add(arg(1), arg(2))
         [] d[1] = "sub" -> sub(arg(1), arg(2))
         [] d[1] = "neg" -> neg(arg(1))
         [] d[1] = "ge" -> ge(arg(1), arg(2))
         [] d[1] = "select" -> select(arg(1), arg(2), arg(3))
         [] OTHER -> <<>>

\* The execution-plan loop of executeUniversalFHEComputation from step k
\* on: the heap and the compute stack after the last step.
RECURSIVE RunPlan(_, _, _, _, _)
RunPlan(plan, k, h, stack, nInputs) ==
    IF k > Len(plan) THEN [heap |-> h, stack |-> stack]
    ELSE LET calls == StepCalls(plan[k], stack, nInputs)
             after == RunCalls(h, calls, Len(h))
         IN RunPlan(plan, k + 1, after,
                    [stack EXCEPT ![plan[k].output] = Len(after)], nInputs)

\* executeUniversalFHEComputation(operation, inputData): the inputs are
\* converted into buffers 1..n, which the compute stack names "0", "1",
\* ...; the result is what computeStack['result'] points to.
executeUniversalFHEComputation(operation, ins) ==
    LET n == Len(ins)
        h == [i \in 1..n |-> Buffer("encInt", <<"json", i>>)]
        stack == [k \in Slot |->
                    IF \E i \in 1..n : InputSlot(i) = k
                    THEN CHOOSE i \in 1..n : InputSlot(i) = k
                    ELSE 0]
        end == RunPlan(operation.execution_plan, 1, h, stack, n)
    IN CtOf(end.heap, end.stack["result"], ins)

\* The plaintexts the run is started with.
Int32Sample ==
    {MinInt32, MinInt32 + 1, -5000, -77, -1, 0, 1, 123, 1000, 5000,
     MaxInt32 - 1, MaxInt32}

NoCt == <<>>
FheSecretKey == "secret.bin"

\* The operations of the registry that take (balance, amount).
WithdrawDigest == {"withdraw", "defi"}

FheIdle ==
    /\ fhePc = "new"
    /\ fheIn = <<0, 0>>
    /\ fheCt = [ct1 |-> NoCt, ct2 |-> NoCt, sum |-> NoCt, op |-> "",
                res |-> NoCt]
    /\ fheOut = [d1 |-> 0, d2 |-> 0, sum |-> 0, res |-> 0]

FheInit ==
    /\ fhePc = "new"
    /\ fheIn \in Int32Sample \X Int32Sample
    /\ fheCt = [ct1 |-> NoCt, ct2 |-> NoCt, sum |-> NoCt, op |-> "",
                res |-> NoCt]
    /\ fheOut = [d1 |-> 0, d2 |-> 0, sum |-> 0, res |-> 0]

\* const ct1 = FHE16.encInt(m1, bits); const ct2 = FHE16.encInt(m2, bits);
fheEncrypt ==
    /\ UNCHANGED notFhe
    /\ fhePc = "new"
    /\ fheCt' = [fheCt EXCEPT
                   !.ct1 = encInt(JsInt(fheIn[1]), JsInt(IntBits)),
                   !.ct2 = encInt(JsInt(fheIn[2]), JsInt(IntBits))]
    /\ fhePc' = "encrypted"
    /\ UNCHANGED <<fheIn, fheOut>>

\* const out = FHE16.add(ct1, ct2);
fheAdd ==
    /\ UNCHANGED notFhe
    /\ fhePc = "encrypted"
    /\ fheCt' = [fheCt EXCEPT !.sum = add(fheCt.ct1, fheCt.ct2)]
    /\ fhePc' = "added"
    /\ UNCHANGED <<fheIn, fheOut>>

\* A job on (ct1, ct2) for one of the two-input operations, as
\* executeFHEComputation runs it: the operation is looked up by its digest
\* and handed to executeUniversalFHEComputation.
fheRunJob ==
    /\ UNCHANGED notFhe
    /\ fhePc = "added"
    /\ \E digest \in WithdrawDigest :
          fheCt' = [fheCt EXCEPT
                      !.op = digest,
                      !.res = executeUniversalFHEComputation(
                                  FHE_OPERATION_REGISTRY[digest],
                                  <<fheCt.ct1, fheCt.ct2>>)]
    /\ fhePc' = "ran"
    /\ UNCHANGED <<fheIn, fheOut>>

\* FHE16.decInt(ct, sk) of the ciphertexts
fheDecrypt ==
    /\ UNCHANGED notFhe
    /\ fhePc = "ran"
    /\ fheOut' = [d1 |-> decInt(fheCt.ct1, FheSecretKey),
                  d2 |-> decInt(fheCt.ct2, FheSecretKey),
                  sum |-> decInt(fheCt.sum, FheSecretKey),
                  res |-> decInt(fheCt.res, FheSecretKey)]
    /\ fhePc' = "done"
    /\ UNCHANGED <<fheIn, fheCt>>

WrapAdd(a, b) ==
    IF a > 0 /\ b > 0 /\ a > MaxInt32 - b
    THEN ((a - MaxInt32) - 1) + ((b - MaxInt32) - 1)
    ELSE IF a < 0 /\ b < 0 /\ a < MinInt32 - b
    THEN ((a + MaxInt32) + 1) + ((b + MaxInt32) + 1)
    ELSE a + b

WrapSub(a, b) ==
    IF b = MinInt32
    THEN (IF a >= 0 THEN a + MinInt32 ELSE (a + MaxInt32) + 1)
    ELSE WrapAdd(a, -b)

C37_BalanceNeverGrows ==
    (fhePc = "done" /\ fheCt.op \in WithdrawDigest /\ fheIn[1] >= 0)
        => (fheOut.res >= 0 /\ fheOut.res <= fheIn[1])

(***************************************************************************)
(* Decrypt job polling of the FHE executor server                          *)
(***************************************************************************)
Run == 1..MaxRuns
DecryptId == 1..MaxDecryptId

\* A call of pollForDecryptJobs: not started, awaiting fetchDecryptJobs,
\* awaiting submitDecryptResult in the try block ("submitTry") or in its
\* catch block ("submitCatch"), or returned.
NoRun == [pc |-> "new", job |-> 0]

DpInit ==
    /\ dpRuns = [r \in Run |-> NoRun]
    /\ dpJobs = [j \in DecryptId |->
                   [open |-> TRUE, decrypted |-> 0, submitted |-> 0]]

InFlight == {r \in Run : dpRuns[r].pc \in {"fetch", "submitTry", "submitCatch"}}

\* A timer fires: setInterval(pollForDecryptJobs, POLL_INTERVAL) and
\* setTimeout(pollForDecryptJobs, 1500) call pollForDecryptJobs whether or
\* not earlier calls are still awaiting; the call sends its fetch request.
dpTimer ==
    /\ UNCHANGED notDecrypt
    /\ \E r \in Run :
          /\ dpRuns[r].pc = "new"
          /\ \A q \in Run : q < r => dpRuns[q].pc # "new"
          /\ dpRuns' = [dpRuns EXCEPT ![r].pc = "fetch"]
    /\ UNCHANGED dpJobs

\* fetchDecryptJobs settles.  Rejected or without a job, the call returns.
\* With a job (one the gatehouse still holds open), the ciphertext is
\* extracted, converted and decrypted, and submitDecryptResult(id, true,
\* value) is sent; when one of these steps throws, the catch block sends
\* submitDecryptResult(id, false, null, message).
dpFetched ==
    /\ UNCHANGED notDecrypt
    /\ \E r \in Run :
          /\ dpRuns[r].pc = "fetch"
          /\ \/ /\ dpRuns' = [dpRuns EXCEPT ![r].pc = "returned"]
                /\ UNCHANGED dpJobs
             \/ \E j \in {i \in DecryptId : dpJobs[i].open}, ok \in BOOLEAN :
                   /\ dpRuns' = [dpRuns EXCEPT
                                   ![r] = [pc |-> IF ok THEN "submitTry"
                                                  ELSE "submitCatch",
                                           job |-> j]]
                   /\ dpJobs' = [dpJobs EXCEPT
                                   ![j].decrypted = @ + (IF ok THEN 1 ELSE 0),
                                   ![j].submitted = @ + 1]

\* submitDecryptResult settles.  Answered, the gatehouse has closed the job
\* and the call returns.  Rejected in the try block, the catch block sends
\* a second result, success=false; rejected in the catch block, the outer
\* catch swallows the error.
dpSubmitted ==
    /\ UNCHANGED notDecrypt
    /\ \E r \in Run, outcome \in {"answer", "error"} :
          LET j == dpRuns[r].job
          IN /\ dpRuns[r].pc \in {"submitTry", "submitCatch"}
             /\ IF outcome = "answer"
                THEN /\ dpRuns' = [dpRuns EXCEPT ![r].pc = "returned"]
                     /\ dpJobs' = [dpJobs EXCEPT ![j].open = FALSE]
                ELSE IF dpRuns[r].pc = "submitTry"
                THEN /\ dpRuns' = [dpRuns EXCEPT ![r].pc = "submitCatch"]
                     /\ dpJobs' = [dpJobs EXCEPT ![j].submitted = @ + 1]
                ELSE /\ dpRuns' = [dpRuns EXCEPT ![r].pc = "returned"]
                     /\ UNCHANGED dpJobs

\* C36: each decrypt job is decrypted at most once and at most one result
\* is submitted for it, and no two executions of pollForDecryptJobs are in
\* progress at the same time.
C36_DecryptJobHandledOnce ==
    /\ \A j \in DecryptId :
          dpJobs[j].decrypted <= 1 /\ dpJobs[j].submitted <= 1
    /\ Cardinality(InFlight) <= 1

(***************************************************************************)
(* Specifications                                                          *)
(***************************************************************************)
Init ==
    /\ PoolInit /\ PayInit /\ HistoryIdle /\ ExInit /\ ClInit /\ CodecIdle
    /\ CercInit /\ RateInit(RateDefaults) /\ WindowInit /\ FheIdle
    /\ DpInit

NextPool ==
    \/ setAdmin
    \/ setVerifier
    \/ deposit
    \/ registerSalary
    \/ updateMerkleRoot
    \/ withdraw
    \/ emergencyWithdraw

SpecPool == Init /\ [][NextPool]_vars

NextPoolFrontend ==
    \/ setVerifier
    \/ deposit
    \/ registerSalary
    \/ updateMerkleRoot
    \/ frontendWithdraw

SpecPoolFrontend == Init /\ [][NextPoolFrontend]_vars

NextPayroll ==
    \/ addEmployee
    \/ removeEmployee
    \/ createPayment
    \/ processPayment
    \/ setExecutor

SpecPayroll == Init /\ [][NextPayroll]_vars

\* The role-gated functions of SalaryPayroll while roles are granted and
\* revoked.
NextPayrollAccess ==
    \/ grantRole
    \/ revokeRole
    \/ addEmployee
    \/ removeEmployee
    \/ updateSalary
    \/ setExecutor
    \/ createPayment
    \/ createBatchPayment

SpecPayrollAccess == Init /\ [][NextPayrollAccess]_vars

NextPayrollTotals ==
    \/ addEmployee
    \/ removeEmployee
    \/ updateSalary
    \/ createPayment
    \/ createBatchPayment
    \/ processPayment

SpecPayrollTotals == Init /\ [][NextPayrollTotals]_vars

\* getPaymentHistory is a view function: it is called on the payment lists
\* the contract can hold once the employees paid have been removed again.
PaymentLists ==
    UNION {[1..n -> [employee : Caller, status : {"Pending"}, changes : {0}]]
              : n \in 0..MaxPayments}

InitHistory ==
    /\ PoolInit /\ HistoryIdle /\ ExInit /\ ClInit /\ CodecIdle /\ CercInit
    /\ RateInit(RateDefaults) /\ WindowInit /\ FheIdle
    /\ DpInit
    /\ roles = [r \in Role |-> {PayrollDeployer}]
    /\ executor = PayrollDeployExecutor
    /\ employees = [a \in Addr |-> NoEmployee]
    /\ payments \in PaymentLists
    /\ payLast = PayCall("removeEmployee", PayrollDeployer, "", 0, ZeroAddr)

NextHistory == callGetPaymentHistory

SpecHistory == InitHistory /\ [][NextHistory]_vars

NextExecutor ==
    \/ start
    \/ pollFetch
    \/ pollClaim
    \/ execBegin
    \/ convertAlloc
    \/ convertFill
    \/ planStep
    \/ execFinish
    \/ pollSubmit

SpecExecutor == Init /\ [][NextExecutor]_vars

\* The event loop runs every continuation that is ready.
SpecExecutorLive == SpecExecutor /\ WF_vars(NextExecutor)

NextClient ==
    \/ call
    \/ scriptDone
    \/ createDone
    \/ afterInit
    \/ fetchDone
    \/ setPk
    \/ encryptTail

SpecClient == Init /\ [][NextClient]_vars

InitCodec ==
    /\ PoolInit /\ PayInit /\ HistoryIdle /\ ExInit /\ ClInit /\ CodecInit
    /\ CercInit /\ RateInit(RateDefaults) /\ WindowInit /\ FheIdle
    /\ DpInit

NextCodec ==
    \/ callSerializeCiphertext
    \/ callDeserializeCiphertext
    \/ callCiphertextToHex
    \/ callHexToCiphertext

SpecCodec == InitCodec /\ [][NextCodec]_vars

NextCerc ==
    \/ registerCiphertext
    \/ updateBalance
    \/ transfer
    \/ approve
    \/ mint
    \/ burn
    \/ cercSetExecutor
    \/ updateTotalSupply

SpecCerc == Init /\ [][NextCerc]_vars

InitMachinesButRate ==
    /\ PoolInit /\ PayInit /\ HistoryIdle /\ ExInit /\ ClInit /\ CodecIdle
    /\ CercInit /\ WindowInit /\ FheIdle
    /\ DpInit

NextRate ==
    \/ recordSuccess
    \/ recordError
    \/ reset

\* A RateLimiter with a documented configuration.
InitRate ==
    /\ InitMachinesButRate
    /\ \E config \in DocumentedConfig : RateInit(config)

SpecRate == InitRate /\ [][NextRate]_vars

\* The executor's rateLimiter, configured from the environment.
InitRateEnv ==
    /\ InitMachinesButRate
    /\ \E env \in Environment :
          RateInit(RateLimiterConfig(ExecutorOptions(env)))

SpecRateEnv == InitRateEnv /\ [][NextRate]_vars

NextWindow ==
    \/ fwTick
    \/ tryRequest

SpecWindow == Init /\ [][NextWindow]_vars

NextDecrypt ==
    \/ dpTimer
    \/ dpFetched
    \/ dpSubmitted

SpecDecrypt == Init /\ [][NextDecrypt]_vars

InitFhe ==
    /\ PoolInit /\ PayInit /\ HistoryIdle /\ ExInit /\ ClInit /\ CodecIdle
    /\ CercInit /\ RateInit(RateDefaults) /\ WindowInit /\ FheInit
    /\ DpInit

NextFhe ==
    \/ fheEncrypt
    \/ fheAdd
    \/ fheRunJob
    \/ fheDecrypt

SpecFhe == InitFhe /\ [][NextFhe]_vars

====
